---- MODULE Spec2Model ----
(***************************************************************************)
(* Session-based breakout detection of traderx-server.                     *)
(*                                                                         *)
(* Two services are modelled: the in-memory SignalDetectionService         *)
(* (app/services/signal_detection_service.py) and the database-backed      *)
(* SignalDetectionServiceV2 (app/services/signal_detection_service_v2.py   *)
(* with app/models/session_state.py), together with the tick ingestion of  *)
(* app/services/tick_data_service.py that feeds both.                      *)
(*                                                                         *)
(* Conventions                                                             *)
(*  - A wall-clock instant is a number of seconds of home (IST) time       *)
(*    counted from midnight of day 0; Day(t) is the trading date and       *)
(*    SecOfDay(t) the time of day.                                         *)
(*  - A price is a whole number of hundredths (paise). Python's None and   *)
(*    a missing dict key are both written 0: the code only ever tests      *)
(*    these values with "not x" / "is None", and every stored price is     *)
(*    positive.                                                            *)
(*  - MongoDB stores a timezone-aware datetime as its UTC instant and      *)
(*    hands it back as a naive UTC value; a naive datetime is stored as    *)
(*    it is. StoredAware and StoredNaive give the stored value.            *)
(***************************************************************************)
EXTENDS Integers, Sequences, FiniteSets, TLC

\* ------------------------------------------------------------------ bounds
\* at most this many tick documents are ever ingested
MaxTicks == 2

\* at most this many calls of start_monitoring
MaxStarts == 2

\* ------------------------------------------------------- program constants
NIFTY == "NIFTY"

FUT == "NIFTY28AUG25FUT"

nifty_index == NIFTY

nifty_futures == {FUT}

Symbols == {NIFTY, FUT}

SymbolOrder == <<NIFTY, FUT>>

\* offset of Asia/Kolkata from UTC, in seconds (5h30)
TzShift == 19800

SecondsPerDay == 86400

\* market hours 09:15 .. 15:30 home time, seconds of day
MarketOpen == 33300

MarketClose == 55800

\* tick_data_service: minimum price change (0.5) in hundredths
min_price_change == 50

\* tick_data_service: buffer_size
buffer_size == 10

\* tick_data_service: buffer_timeout, seconds
buffer_timeout == 1

\* deque(maxlen=100) of 5-minute candles per symbol
PriceDataMaxLen == 100

\* _get_current_price: look-back window of the in-memory service (5 min)
PriceLookback == 300

\* _get_current_price: look-back window of the V2 service (2 min)
PriceLookbackV2 == 120

\* _cleanup_old_signals: staleness window (4 hours)
StaleSeconds == 14400

\* dummy session levels used when a level is missing (10 points)
DummyOffset == 1000

SessionOrder == <<"Morning Opening", "Mid Morning", "Pre Lunch", "Lunch Break">>

SessionNames == {SessionOrder[i] : i \in 1..Len(SessionOrder)}

\* "HH:MM" session boundaries converted to minutes of the day
start_minutes(s) == CASE s = "Morning Opening" -> 570
                      [] s = "Mid Morning" -> 585
                      [] s = "Pre Lunch" -> 630
                      [] OTHER -> 710

end_minutes(s) == CASE s = "Morning Opening" -> 575
                    [] s = "Mid Morning" -> 595
                    [] s = "Pre Lunch" -> 645
                    [] OTHER -> 740

SignalTypes == {"BUY_CALL", "BUY_PUT"}

NoType == "NONE"

\* ------------------------------------------------------ modelled input sets
\* wall-clock instants (day 0) at which something can happen
Times == {32400, 34260, 34560, 50400, 54060, 54360}

\* instants at which the feed delivers ticks
TickTimes == {34260, 54060, 54360}

\* prices a tick can carry
Prices == {10000, 10105}

TickSources == {"rest", "ws"}

\* ------------------------------------------------------------ time helpers
Day(t) == t \div SecondsPerDay

SecOfDay(t) == t % SecondsPerDay

MinuteOfDay(t) == SecOfDay(t) \div 60

DayStart(t) == Day(t) * SecondsPerDay

\* datetime.combine(date of t, "HH:MM")
AtMinutes(t, m) == DayStart(t) + m * 60

StoredAware(t) == t - TzShift

StoredNaive(t) == t

\* TimezoneUtils.is_market_hours for a weekday
is_market_hours(t) == MarketOpen <= SecOfDay(t) /\ SecOfDay(t) <= MarketClose

Max(a, b) == IF a >= b THEN a ELSE b

Min(a, b) == IF a <= b THEN a ELSE b

SetMax(S) == CHOOSE x \in S : \A y \in S : y <= x

SetMin(S) == CHOOSE x \in S : \A y \in S : x <= y

Abs(x) == IF x < 0 THEN -x ELSE x

\* ------------------------------------------------------------------- state
VARIABLES
  now,                 \* wall clock (home time)
  tick_data,           \* collection tick_data: stored tick documents
  tick_buffer,         \* TickDataService.tick_buffer (documents not yet written)
  last_flush,          \* TickDataService.last_flush
  last_tick_cache,     \* TickDataService.last_tick_cache: symbol -> last accepted tick
  sessions,            \* SignalDetectionService.sessions: name -> TradingSession
  price_data,          \* SignalDetectionService.price_data: symbol -> candles
  last_processed_time, \* SignalDetectionService.last_processed_time (0 = None)
  active_signals,      \* SignalDetectionService.active_signals (set of signal records)
  session_signals,     \* SignalDetectionService.session_signals: set of <<session, type>> keys
  signals,             \* collection signals: persisted signal documents
  broadcasts,          \* ids of the signals handed to the broadcast sink
  monitoring_active,   \* SignalDetectionService.monitoring_active
  monitoring_task,     \* SignalDetectionService.monitoring_task is not None
  loop_tasks,          \* number of live _monitoring_loop tasks
  start_pc,            \* position of a running start_monitoring call (0 = none)
  hist_time,           \* current_time captured by _process_historical_sessions
  starts,              \* number of start_monitoring calls so far
  session_states,      \* collection session_states of the database-backed service
  v2_monitoring_active, \* SignalDetectionServiceV2.monitoring_active
  v2_monitoring_task,  \* SignalDetectionServiceV2.monitoring_task is not None
  v2_loop_tasks,       \* number of live V2 _monitoring_loop tasks
  v2_current_time,     \* current_time of the latest V2 loop iteration (0 = none yet)
  run,                 \* the evaluator runs that execute step by step
  args,                \* arguments handed to the pure computations
  result               \* what the pure computations returned

tickVars == <<tick_data, tick_buffer, last_flush, last_tick_cache>>

sessionVars == <<sessions, price_data, last_processed_time>>

signalVars == <<active_signals, session_signals, signals, broadcasts>>

controlVars == <<monitoring_active, monitoring_task, loop_tasks, start_pc, hist_time, starts>>

v2Vars == <<session_states, v2_monitoring_active, v2_monitoring_task, v2_loop_tasks,
           v2_current_time>>

raceVars == <<run>>

calcVars == <<args, result>>

memVars == <<sessionVars, controlVars>>

vars == <<now, tickVars, sessionVars, signalVars, controlVars, v2Vars, raceVars, calcVars>>

\* ---------------------------------------------------------- tick ingestion
NoCache == [price |-> 0, timestamp |-> 0, kind |-> "none"]

\* the kind of datetime a feed path passes as 'timestamp'
TimestampKind(src) == IF src = "rest" THEN "naive" ELSE "aware"

\* a deduplication that rejects a tick only when the price change is below
\* the threshold, the elapsed time is below the threshold and the price is
\* identical, all at once
should_store_unless_all(cache, price, timestamp, kind) ==
  \/ cache.kind = "none"
  \/ /\ cache.kind = kind
     /\ ~(/\ Abs(price - cache.price) < min_price_change
          /\ timestamp - cache.timestamp < 1
          /\ price = cache.price)

\* TickDataService._should_store_tick; a naive and an aware datetime cannot
\* be subtracted (TypeError), which store_tick_data turns into a rejection
should_store_tick(cache, price, timestamp, kind) ==
  \/ cache.kind = "none"
  \/ /\ ~(Abs(price - cache.price) < min_price_change)
     /\ cache.kind = kind
     /\ ~(timestamp - cache.timestamp < 1)
     /\ price # cache.price

\* the document written for a tick received at wall-clock instant t; the
\* REST feed and the current websocket format carry no volume (0 = None)
TickDoc(sym, price, t, src) ==
  [symbol |-> sym, price |-> price,
   timestamp |-> IF TimestampKind(src) = "naive" THEN StoredNaive(t) ELSE StoredAware(t),
   received_at |-> StoredAware(t), volume |-> 0]

\* replace_one(filter on symbol, price, timestamp, doc, upsert=True) for every doc
FlushInto(store, docs) ==
  {d \in store : ~\E n \in docs : /\ n.symbol = d.symbol
                                  /\ n.price = d.price
                                  /\ n.timestamp = d.timestamp} \cup docs

\* a guard that lets every tick through
any_tick(sym, price) == TRUE

\* the guard of store_tick / store_tick_data on the parsed fields: a symbol
\* and a positive price ("" = no symbol, 0 = no price)
valid_tick(sym, price) == sym # "" /\ price > 0

\* the deduplication, the append to tick_buffer and _maybe_flush_buffer that
\* store_tick and store_tick_data share, for a tick with timestamp of the
\* given kind
BufferTick(sym, price, src) ==
  IF should_store_tick(last_tick_cache[sym], price, now, TimestampKind(src))
  THEN LET buffered == tick_buffer \cup {TickDoc(sym, price, now, src)}
           should_flush == \/ Cardinality(buffered) >= buffer_size
                           \/ now - last_flush >= buffer_timeout
       IN /\ last_tick_cache' = [last_tick_cache EXCEPT ![sym] =
                 [price |-> price, timestamp |-> now, kind |-> TimestampKind(src)]]
          /\ IF should_flush
             THEN /\ tick_data' = FlushInto(tick_data, buffered)
                  /\ tick_buffer' = {}
                  /\ last_flush' = now
             ELSE /\ tick_buffer' = buffered
                  /\ UNCHANGED <<tick_data, last_flush>>
  ELSE UNCHANGED tickVars

\* TickDataService.store_tick_data followed by _maybe_flush_buffer
StoreTickData(sym, price, src) ==
  /\ Cardinality(tick_data) + Cardinality(tick_buffer) < MaxTicks
  /\ BufferTick(sym, price, src)
  /\ UNCHANGED <<now, sessionVars, signalVars, controlVars, v2Vars, raceVars, calcVars>>

\* TickDataService._is_market_hours(datetime.now(market_timezone)): the
\* aware home-time value is relabelled as UTC and converted to home time,
\* so the check sees the wall clock moved forward by the zone offset
tick_is_market_hours(t) == is_market_hours(t + TzShift)

\* what a call of store_tick / store_tick_data returned
TickResult(op, sym, price, src, value) ==
  [op |-> op, symbol |-> sym, price |-> price, src |-> src, value |-> value]

\* TickDataService.store_tick_data(symbol, price, timestamp of the feed
\* path src), the returned bool recorded in result
StoreTickDataCall(sym, price, src) ==
  /\ Cardinality(tick_data) + Cardinality(tick_buffer) < MaxTicks
  /\ IF ~valid_tick(sym, price)
     THEN /\ UNCHANGED tickVars
          /\ result' = TickResult("store_tick_data", sym, price, src, FALSE)
     ELSE /\ BufferTick(sym, price, src)
          /\ result' = TickResult("store_tick_data", sym, price, src,
                                  should_store_tick(last_tick_cache[sym], price, now,
                                                    TimestampKind(src)))
  /\ UNCHANGED <<now, sessionVars, signalVars, controlVars, v2Vars, raceVars, args>>

\* TickDataService.store_tick(symbol, ltpc): validation, market-hours check,
\* then the same path with timestamp = datetime.now(market_timezone)
StoreTickCall(sym, price) ==
  /\ Cardinality(tick_data) + Cardinality(tick_buffer) < MaxTicks
  /\ IF ~valid_tick(sym, price) \/ ~tick_is_market_hours(now)
     THEN /\ UNCHANGED tickVars
          /\ result' = TickResult("store_tick", sym, price, "ws", FALSE)
     ELSE /\ BufferTick(sym, price, "ws")
          /\ result' = TickResult("store_tick", sym, price, "ws",
                                  should_store_tick(last_tick_cache[sym], price, now, "aware"))
  /\ UNCHANGED <<now, sessionVars, signalVars, controlVars, v2Vars, raceVars, args>>

\* time passes
AdvanceClockIn(T) ==
  /\ \E t \in T : t > now /\ now' = t
  /\ UNCHANGED <<tickVars, sessionVars, signalVars, controlVars, v2Vars, raceVars, calcVars>>

\* ------------------------------------------------------ tick store queries
\* find({'symbol': sym, 'received_at': {'$gte': lo, '$lt': hi}})
TicksReceivedIn(sym, lo, hi) ==
  {d \in tick_data : d.symbol = sym /\ lo <= d.received_at /\ d.received_at < hi}

\* the same query with the futures-to-index proxy fallback
TicksOrProxy(sym, lo, hi) ==
  IF TicksReceivedIn(sym, lo, hi) = {} /\ sym \in nifty_futures
  THEN TicksReceivedIn(nifty_index, lo, hi)
  ELSE TicksReceivedIn(sym, lo, hi)

PricesOf(S) == {d.price : d \in S}

\* first / last price of a tick set sorted by received_at
FirstReceived(S) == (CHOOSE d \in S : \A e \in S : d.received_at <= e.received_at).price

LastReceived(S) == (CHOOSE d \in S : \A e \in S : e.received_at <= d.received_at).price

NoCandle == [timestamp |-> 0, open |-> 0, high |-> 0, low |-> 0, close |-> 0,
             volume |-> 0, tick_count |-> 0]

\* sum(tick.get('volume', 0) or 0 for tick in tick_data)
RECURSIVE SumVolume(_)
SumVolume(S) ==
  IF S = {} THEN 0
  ELSE LET d == CHOOSE x \in S : TRUE IN d.volume + SumVolume(S \ {d})

\* a candle built from the symbol's own ticks alone, without the fallback
\* of the futures to the index
candle_from_own_ticks(sym, start_time, end_time) ==
  LET ticks == TicksReceivedIn(sym, start_time, end_time)
  IN IF ticks = {} THEN NoCandle
     ELSE [timestamp |-> start_time,
           open |-> FirstReceived(ticks),
           high |-> SetMax(PricesOf(ticks)),
           low |-> SetMin(PricesOf(ticks)),
           close |-> LastReceived(ticks),
           volume |-> SumVolume(ticks),
           tick_count |-> Cardinality(ticks)]

\* SignalDetectionService._get_5min_candle_data; NoCandle stands for None
get_5min_candle_data(sym, start_time, end_time) ==
  LET ticks == TicksOrProxy(sym, start_time, end_time)
  IN IF ticks = {} THEN NoCandle
     ELSE [timestamp |-> start_time,
           open |-> FirstReceived(ticks),
           high |-> SetMax(PricesOf(ticks)),
           low |-> SetMin(PricesOf(ticks)),
           close |-> LastReceived(ticks),
           volume |-> SumVolume(ticks),
           tick_count |-> Cardinality(ticks)]

\* TickDataService.get_ticks_for_timerange: naive bounds are taken as home
\* time, converted to UTC and compared with the stored 'timestamp'
get_ticks_for_timerange(sym, start_time, end_time) ==
  {d \in tick_data : /\ d.symbol = sym
                     /\ start_time - TzShift <= d.timestamp
                     /\ d.timestamp <= end_time - TzShift}

\* ticks[-1]['price'] of a result sorted by timestamp
LatestPrice(S) == (CHOOSE d \in S : \A e \in S : e.timestamp <= d.timestamp).price

\* deque.append with maxlen
DequeAppend(q, c) ==
  IF Len(q) >= PriceDataMaxLen THEN Append(Tail(q), c) ELSE Append(q, c)

\* SignalDetectionService._get_current_price at instant t; 0 stands for None
get_current_price(sym, t, pdata) ==
  LET ticks == get_ticks_for_timerange(sym, t - PriceLookback, t)
      nifty_ticks == get_ticks_for_timerange(nifty_index, t - PriceLookback, t)
  IN IF ticks # {} THEN LatestPrice(ticks)
     ELSE IF sym \in nifty_futures /\ nifty_ticks # {} THEN LatestPrice(nifty_ticks)
     ELSE IF pdata[sym] # <<>> THEN pdata[sym][Len(pdata[sym])].close
     ELSE IF sym \in nifty_futures /\ pdata[nifty_index] # <<>>
          THEN pdata[nifty_index][Len(pdata[nifty_index])].close
     ELSE 0

\* SignalDetectionServiceV2._get_current_price at instant t; 0 stands for None
get_current_price_v2(sym, t) ==
  LET ticks == get_ticks_for_timerange(sym, t - PriceLookbackV2, t)
      nifty_ticks == get_ticks_for_timerange(nifty_index, t - PriceLookbackV2, t)
  IN IF ticks # {} THEN LatestPrice(ticks)
     ELSE IF sym \in nifty_futures /\ nifty_ticks # {} THEN LatestPrice(nifty_ticks)
     ELSE 0

\* ------------------------------------------------- breakout classification
NoLevels == [high |-> 0, low |-> 0]

\* the levels the in-memory evaluator compares a price with: the session's,
\* or the dummy levels around the price when a session level is missing
EffectiveLevels(lv, price) ==
  IF lv.high = 0 \/ lv.low = 0
  THEN [high |-> price - DummyOffset, low |-> price + DummyOffset]
  ELSE lv

\* a decision chain that follows the index alone: a high break is a call, a
\* low break a put, whatever the futures does
BreakoutTypeIndexOnly(index_price, futures_price, index_lv, futures_lv) ==
  IF index_price > index_lv.high THEN "BUY_CALL"
  ELSE IF index_price < index_lv.low THEN "BUY_PUT"
  ELSE IF futures_price > futures_lv.high THEN "BUY_CALL"
  ELSE IF futures_price < futures_lv.low THEN "BUY_PUT"
  ELSE NoType

\* a decision chain that looks at the one-sided low break before the
\* one-sided high break
BreakoutTypeLowFirst(index_price, futures_price, index_lv, futures_lv) ==
  LET index_breaks_high == index_price > index_lv.high
      index_breaks_low == index_price < index_lv.low
      futures_breaks_high == futures_price > futures_lv.high
      futures_breaks_low == futures_price < futures_lv.low
  IN IF index_breaks_high /\ futures_breaks_high THEN "BUY_CALL"
     ELSE IF index_breaks_low /\ futures_breaks_low THEN "BUY_PUT"
     ELSE IF \/ index_breaks_low /\ ~futures_breaks_low
             \/ futures_breaks_low /\ ~index_breaks_low THEN "BUY_CALL"
     ELSE IF \/ index_breaks_high /\ ~futures_breaks_high
             \/ futures_breaks_high /\ ~index_breaks_high THEN "BUY_PUT"
     ELSE NoType

\* decision chain of SignalDetectionService._check_breakout_conditions
BreakoutType(index_price, futures_price, index_lv, futures_lv) ==
  LET index_breaks_high == index_price > index_lv.high
      index_breaks_low == index_price < index_lv.low
      futures_breaks_high == futures_price > futures_lv.high
      futures_breaks_low == futures_price < futures_lv.low
  IN IF index_breaks_high /\ futures_breaks_high THEN "BUY_CALL"
     ELSE IF index_breaks_low /\ futures_breaks_low THEN "BUY_PUT"
     ELSE IF \/ index_breaks_high /\ ~futures_breaks_high
             \/ futures_breaks_high /\ ~index_breaks_high THEN "BUY_PUT"
     ELSE IF \/ index_breaks_low /\ ~futures_breaks_low
             \/ futures_breaks_low /\ ~index_breaks_low THEN "BUY_CALL"
     ELSE NoType

\* a classification that compares whatever the price lookup returned,
\* a missing price (0) included
check_breakout_unguarded(index_price, futures_price, data) ==
  BreakoutType(index_price, futures_price,
               EffectiveLevels(data[NIFTY], index_price),
               EffectiveLevels(data[FUT], futures_price))

\* a classification that proposes nothing once a signal is held in memory
check_breakout_until_signalled(index_price, futures_price, data) ==
  IF index_price = 0 \/ futures_price = 0 \/ active_signals # {} THEN NoType
  ELSE BreakoutType(index_price, futures_price,
                    EffectiveLevels(data[NIFTY], index_price),
                    EffectiveLevels(data[FUT], futures_price))

\* signal type SignalDetectionService._check_breakout_conditions proposes
\* for a session with levels data[symbol]; NoType when it proposes nothing
check_breakout_conditions(index_price, futures_price, data) ==
  IF index_price = 0 \/ futures_price = 0 THEN NoType
  ELSE BreakoutType(index_price, futures_price,
                    EffectiveLevels(data[NIFTY], index_price),
                    EffectiveLevels(data[FUT], futures_price))

\* signal type SignalDetectionServiceV2 derives for a completed session:
\* _check_session_breakouts picks HIGH_BREAK / LOW_BREAK from the index
\* price alone and _generate_breakout_signal maps it to a signal type
check_session_breakouts_type(index_price, futures_price, index_lv) ==
  IF index_lv.high = 0 \/ index_lv.low = 0 THEN NoType
  ELSE IF index_price = 0 \/ futures_price = 0 THEN NoType
  ELSE IF index_price > index_lv.high THEN "BUY_CALL"
  ELSE IF index_price < index_lv.low THEN "BUY_PUT"
  ELSE NoType

\* ------------------------------------------------------------- signal math
NoTargets == [stop_loss |-> 0, target_1 |-> 0, target_2 |-> 0]

\* round(x / 2, 2) for x a number of hundredths: an exact half-hundredth is
\* rounded by the binary value of the float, up or down (up chooses)
RoundHalf(x, up) == IF x % 2 = 0 THEN x \div 2 ELSE (x \div 2) + (IF up THEN 1 ELSE 0)

\* a target computation whose second target lies two ranges from the entry
calculate_double_range_targets(signal_type, session_high, session_low, entry_price, up) ==
  IF session_high = 0 \/ session_low = 0 \/ entry_price = 0 THEN NoTargets
  ELSE LET session_range == session_high - session_low
           target_1_amount == RoundHalf(session_range, up)
           target_2_amount == 2 * session_range
       IN IF signal_type = "BUY_PUT"
          THEN [stop_loss |-> session_high,
                target_1 |-> entry_price - target_1_amount,
                target_2 |-> entry_price - target_2_amount]
          ELSE [stop_loss |-> session_low,
                target_1 |-> entry_price + target_1_amount,
                target_2 |-> entry_price + target_2_amount]

\* _calculate_stop_loss_and_targets (same body in both services)
calculate_stop_loss_and_targets(signal_type, session_high, session_low, entry_price, up) ==
  IF session_high = 0 \/ session_low = 0 \/ entry_price = 0 THEN NoTargets
  ELSE LET session_range == session_high - session_low
           target_1_amount == RoundHalf(session_range, up)
           target_2_amount == session_range
       IN IF signal_type = "BUY_PUT"
          THEN [stop_loss |-> session_high,
                target_1 |-> entry_price - target_1_amount,
                target_2 |-> entry_price - target_2_amount]
          ELSE [stop_loss |-> session_low,
                target_1 |-> entry_price + target_1_amount,
                target_2 |-> entry_price + target_2_amount]

\* the percentage defaults _generate_signal falls back to (not rounded by
\* the code; kept here to the hundredth below)
DefaultTargets(signal_type, price) ==
  IF signal_type = "BUY_CALL"
  THEN [stop_loss |-> (price * 98) \div 100,
        target_1 |-> (price * 101) \div 100,
        target_2 |-> (price * 102) \div 100]
  ELSE [stop_loss |-> (price * 102) \div 100,
        target_1 |-> (price * 99) \div 100,
        target_2 |-> (price * 98) \div 100]

\* stop loss and targets as _generate_signal stores them
SignalTargets(signal_type, lv, price, up) ==
  LET c == calculate_stop_loss_and_targets(signal_type, lv.high, lv.low, price, up)
  IN IF c.stop_loss = 0 \/ c.target_1 = 0 \/ c.target_2 = 0
     THEN DefaultTargets(signal_type, price)
     ELSE c

\* ------------------------------------------------------- signal generation
\* The signal state an evaluator reads and writes, as one record w:
\* active_signals, session_signals, signals (collection), broadcasts.
World == [active_signals |-> active_signals, session_signals |-> session_signals,
          signals |-> signals, broadcasts |-> broadcasts]

\* f"{session.name}_{signal_type}_{timestamp:%H%M%S}_{microsecond}"; instants
\* are whole seconds, so the microsecond part is constant and left out
SignalId(s, signal_type, timestamp) == <<s, signal_type, SecOfDay(timestamp)>>

\* the in-memory duplicate check of _generate_signal
MemDuplicate(mem, s, signal_type) ==
  \E g \in mem : g.session_name = s /\ g.signal_type = signal_type

\* find_one({'session_name': ..., 'signal_type': ...}) of _generate_signal
DbDuplicate(coll, s, signal_type) ==
  \E d \in coll : d.session_name = s /\ d.signal_type = signal_type

\* _generate_signal with both duplicate checks left out
NoDuplicateCheck(w, s, signal_type) == FALSE

\* both duplicate checks of _generate_signal, in sequence
DuplicateExists(w, s, signal_type) ==
  MemDuplicate(w.active_signals, s, signal_type) \/ DbDuplicate(w.signals, s, signal_type)

\* dict assignment active_signals[signal_id] = signal_data
PutSignal(mem, g) == {h \in mem : h.id # g.id} \cup {g}

\* dict assignment session_signals[session_key] = {...}
PutSessionSignal(ss, g) ==
  {h \in ss : ~(h.session_name = g.session_name /\ h.signal_type = g.signal_type)} \cup {g}

\* insert_one under the unique indexes of initialize_database: on "id" and on
\* (session_name, signal_type, timestamp); a duplicate key leaves the
\* collection unchanged
InsertAllowed(coll, doc) ==
  ~\E d \in coll : \/ d.id = doc.id
                   \/ /\ d.session_name = doc.session_name
                      /\ d.signal_type = doc.signal_type
                      /\ d.timestamp = doc.timestamp

InsertSignal(coll, doc) == IF InsertAllowed(coll, doc) THEN coll \cup {doc} ELSE coll

\* the sums of SignalDetectionService._calculate_vwap over the candles of q
\* from the i-th on that start at or after today's market open: pv is three
\* times the sum of typical_price * volume, v the sum of the volumes
RECURSIVE calculate_vwap(_, _, _)
calculate_vwap(q, i, t) ==
  IF i > Len(q) THEN [pv |-> 0, v |-> 0]
  ELSE LET rest == calculate_vwap(q, i + 1, t)
           c == q[i]
       IN IF c.timestamp >= DayStart(t) + MarketOpen
          THEN [pv |-> rest.pv + (c.high + c.low + c.close) * c.volume,
                v |-> rest.v + c.volume]
          ELSE rest

\* price > vwap (above) or price < vwap (below) for symbol sym, FALSE when
\* _calculate_vwap returns None (fewer than 5 candles or no volume)
vwap_side(sym, price, above, t, pdata) ==
  LET w == calculate_vwap(pdata[sym], 1, t)
  IN /\ Len(pdata[sym]) >= 5
     /\ w.v > 0
     /\ IF above THEN 3 * price * w.v > w.pv ELSE 3 * price * w.v < w.pv

\* SignalDetectionService._check_volume_confirmation
check_volume_confirmation == TRUE

\* SignalDetectionService._calculate_signal_confidence at instant t
calculate_signal_confidence(signal_type, t, pdata) ==
  LET nifty_price == get_current_price(NIFTY, t, pdata)
      future_price == get_current_price(FUT, t, pdata)
      aligned == /\ nifty_price # 0 /\ future_price # 0
                 /\ vwap_side(NIFTY, nifty_price, signal_type = "BUY_CALL", t, pdata)
                 /\ vwap_side(FUT, future_price, signal_type = "BUY_CALL", t, pdata)
      current_hour == SecOfDay(t) \div 3600
      confidence == 50 + (IF aligned THEN 20 ELSE 0)
                       + (IF check_volume_confirmation THEN 15 ELSE 0)
                       + (IF 10 <= current_hour /\ current_hour <= 14 THEN 10 ELSE 0)
  IN Min(95, Max(30, confidence))

MemSignal(s, signal_type, timestamp) ==
  [id |-> SignalId(s, signal_type, timestamp), session_name |-> s,
   signal_type |-> signal_type, timestamp |-> timestamp]

SignalDoc(s, signal_type, timestamp, lv, price, t, pdata, up) ==
  LET tg == SignalTargets(signal_type, lv, price, up)
  IN [id |-> SignalId(s, signal_type, timestamp), session_name |-> s,
      signal_type |-> signal_type, timestamp |-> timestamp,
      entry_price |-> price, stop_loss |-> tg.stop_loss,
      target_1 |-> tg.target_1, target_2 |-> tg.target_2,
      confidence |-> calculate_signal_confidence(signal_type, t, pdata),
      status |-> "ACTIVE", session_high |-> lv.high, session_low |-> lv.low,
      created_at |-> t]

\* SignalDetectionService._generate_signal, run without interruption at
\* instant t for session s with levels data
generate_signal(w, s, data, signal_type, timestamp, nifty_price, t, pdata, up) ==
  IF DuplicateExists(w, s, signal_type) THEN w
  ELSE LET g == MemSignal(s, signal_type, timestamp)
           doc == SignalDoc(s, signal_type, timestamp, data[NIFTY], nifty_price, t, pdata, up)
       IN [active_signals |-> PutSignal(w.active_signals, g),
           session_signals |-> PutSessionSignal(w.session_signals, g),
           signals |-> InsertSignal(w.signals, doc),
           broadcasts |-> w.broadcasts \cup {g.id}]

\* SignalDetectionService._check_breakout_conditions for session s at instant
\* t: price lookup, classification and, on a signal type, _generate_signal
CheckBreakouts(w, s, data, timestamp, t, pdata, up) ==
  LET ip == get_current_price(NIFTY, t, pdata)
      fp == get_current_price(FUT, t, pdata)
      ty == check_breakout_conditions(ip, fp, data)
  IN IF ty = NoType THEN w
     ELSE generate_signal(w, s, data, ty, timestamp, ip, t, pdata, up)

\* SignalDetectionService._monitor_breakouts from the i-th session on
RECURSIVE monitor_breakouts(_, _, _, _, _, _)
monitor_breakouts(i, w, sess, t, pdata, up) ==
  IF i > Len(SessionOrder) THEN w
  ELSE LET s == SessionOrder[i]
           w2 == IF sess[s].is_completed
                 THEN CheckBreakouts(w, s, sess[s].session_data, t, t, pdata, up)
                 ELSE w
       IN monitor_breakouts(i + 1, w2, sess, t, pdata, up)

\* SignalDetectionService._cleanup_old_signals
cleanup_old_signals(w, t) ==
  LET cutoff == t - StaleSeconds
      expired == {g \in w.active_signals : g.timestamp < cutoff}
      expired_ids == {g.id : g \in expired}
  IN [active_signals |-> w.active_signals \ expired,
      session_signals |-> {g \in w.session_signals : ~(g.timestamp < cutoff)},
      signals |-> {IF d.id \in expired_ids /\ d.status = "ACTIVE"
                   THEN [d EXCEPT !.status = "EXPIRED"] ELSE d : d \in w.signals},
      broadcasts |-> w.broadcasts]

\* the cleanup trigger of _update_technical_indicators
update_technical_indicators(w, t) ==
  IF MinuteOfDay(t) % 30 = 0 /\ SecOfDay(t) % 60 < 15 THEN cleanup_old_signals(w, t) ELSE w

\* ------------------------------------------------ in-memory session registry
NoData == [sym \in Symbols |-> NoLevels]

\* TradingSession after __init__ / reset_for_day
reset_for_day(sess) == [is_active |-> FALSE, is_completed |-> FALSE, session_data |-> NoData]

\* SignalDetectionService._update_session_data: fold the latest candle of
\* every symbol into the running session high/low
update_session_data(data, pdata) ==
  [sym \in Symbols |->
     IF pdata[sym] = <<>> THEN data[sym]
     ELSE LET latest == pdata[sym][Len(pdata[sym])]
          IN IF data[sym].high = 0
             THEN [high |-> latest.high, low |-> latest.low]
             ELSE [high |-> Max(data[sym].high, latest.high),
                   low |-> Min(data[sym].low, latest.low)]]

\* one session's step of SignalDetectionService._check_sessions at instant t
\* (_finalize_session only logs the levels)
check_session(sess, s, t, pdata) ==
  LET current_minutes == MinuteOfDay(t)
      is_in_session_range == /\ start_minutes(s) <= current_minutes
                             /\ current_minutes <= end_minutes(s)
  IN IF ~sess.is_active /\ ~sess.is_completed /\ is_in_session_range
     THEN reset_for_day([sess EXCEPT !.is_active = TRUE])
     ELSE IF sess.is_active /\ current_minutes > end_minutes(s)
     THEN [sess EXCEPT !.is_active = FALSE, !.is_completed = TRUE]
     ELSE IF sess.is_active /\ is_in_session_range
     THEN [sess EXCEPT !.session_data = update_session_data(sess.session_data, pdata)]
     ELSE sess

\* SignalDetectionService._check_sessions
check_sessions(sess, t, pdata) == [s \in SessionNames |-> check_session(sess[s], s, t, pdata)]

\* SignalDetectionService._process_current_candle: the candle start of t
CandleStart(t) == t - (SecOfDay(t) % 300)

CandleDue(t) == ~(last_processed_time # 0 /\ CandleStart(t) <= last_processed_time)

process_current_candle(pdata, t) ==
  [sym \in Symbols |->
     LET c == get_5min_candle_data(sym, CandleStart(t), CandleStart(t) + 300)
     IN IF c = NoCandle THEN pdata[sym] ELSE DequeAppend(pdata[sym], c)]

\* the 5-minute candles _process_session_retroactively appends for a window
RECURSIVE AppendCandles(_, _, _, _)
AppendCandles(q, sym, from, to) ==
  IF ~(from < to) THEN q
  ELSE LET c == get_5min_candle_data(sym, from, from + 300)
       IN AppendCandles(IF c = NoCandle THEN q ELSE DequeAppend(q, c), sym, from + 300, to)

\* SignalDetectionService._process_session_retroactively: session levels
\* from all ticks received in [start_time, end_time)
RetroData(data, start_time, end_time) ==
  [sym \in Symbols |->
     LET session_ticks == TicksOrProxy(sym, start_time, end_time)
     IN IF session_ticks = {} THEN data[sym]
        ELSE [high |-> SetMax(PricesOf(session_ticks)),
              low |-> SetMin(PricesOf(session_ticks))]]

RetroCandles(pdata, start_time, end_time) ==
  [sym \in Symbols |->
     IF TicksOrProxy(sym, start_time, end_time) = {} THEN pdata[sym]
     ELSE AppendCandles(pdata[sym], sym, start_time, end_time)]

\* SignalDetectionService._load_active_signals_from_db: today's ACTIVE
\* documents, put into active_signals and session_signals
LoadedSignals(t) ==
  {MemSignal(d.session_name, d.signal_type, d.timestamp) :
     d \in {e \in signals : e.status = "ACTIVE" /\ e.created_at >= DayStart(t)}}

RECURSIVE PutAll(_, _)
PutAll(mem, S) ==
  IF S = {} THEN mem
  ELSE LET g == CHOOSE x \in S : TRUE IN PutAll(PutSignal(mem, g), S \ {g})

RECURSIVE PutAllSession(_, _)
PutAllSession(ss, S) ==
  IF S = {} THEN ss
  ELSE LET g == CHOOSE x \in S : \A y \in S : y.timestamp <= x.timestamp
       IN PutAllSession(PutSessionSignal(ss, g), S \ {g})

\* --------------------------------------------- in-memory service: handlers
SetWorld(w) ==
  /\ active_signals' = w.active_signals
  /\ session_signals' = w.session_signals
  /\ signals' = w.signals
  /\ broadcasts' = w.broadcasts

\* start_monitoring up to the call of _process_historical_sessions:
\* monitoring flag, signal tracking reset and reload, reset of every session
StartMonitoring ==
  /\ start_pc = 0
  /\ starts < MaxStarts
  /\ starts' = starts + 1
  /\ monitoring_active' = TRUE
  /\ active_signals' = PutAll(active_signals, LoadedSignals(now))
  /\ session_signals' = PutAllSession({}, LoadedSignals(now))
  /\ sessions' = [s \in SessionNames |-> reset_for_day(sessions[s])]
  /\ start_pc' = 1
  /\ hist_time' = now
  /\ UNCHANGED <<now, tickVars, price_data, last_processed_time, signals, broadcasts,
                 monitoring_task, loop_tasks, v2Vars, raceVars, calcVars>>

\* _process_historical_sessions from the i-th session on, with current_time
\* ht captured on entry and the clock at t; st carries sessions, price_data
\* and the signal state
RECURSIVE process_historical_sessions(_, _, _, _, _)
process_historical_sessions(i, st, ht, t, up) ==
  IF i > Len(SessionOrder) THEN st
  ELSE LET s == SessionOrder[i]
           session_start_time == AtMinutes(ht, start_minutes(s))
           session_end_time == AtMinutes(ht, end_minutes(s))
           data == RetroData(st.sessions[s].session_data, session_start_time, session_end_time)
           pdata == RetroCandles(st.price_data, session_start_time, session_end_time)
           st2 == IF ht > session_end_time
                  THEN [sessions |-> [st.sessions EXCEPT ![s].is_completed = TRUE,
                                                         ![s].session_data = data],
                        price_data |-> pdata,
                        world |-> CheckBreakouts(st.world, s, data, ht, t, pdata, up)]
                  ELSE st
       IN process_historical_sessions(i + 1, st2, ht, t, up)

\* the rest of start_monitoring: _process_historical_sessions over every
\* session, then the creation of the monitoring loop task
ProcessHistoricalSessions(up) ==
  /\ start_pc = 1
  /\ LET st == process_historical_sessions(
                 1, [sessions |-> sessions, price_data |-> price_data, world |-> World],
                 hist_time, now, up)
     IN /\ sessions' = st.sessions
        /\ price_data' = st.price_data
        /\ SetWorld(st.world)
  /\ start_pc' = 0
  /\ hist_time' = 0
  /\ monitoring_task' = TRUE
  /\ loop_tasks' = loop_tasks + 1
  /\ UNCHANGED <<now, tickVars, last_processed_time, monitoring_active, starts,
                 v2Vars, raceVars, calcVars>>

\* the body of one iteration of SignalDetectionService._monitoring_loop
LoopBody(up) ==
  /\ loop_tasks > 0
  /\ monitoring_active
  /\ IF ~is_market_hours(now)
     THEN UNCHANGED <<sessionVars, signalVars>>
     ELSE LET pdata == IF CandleDue(now) THEN process_current_candle(price_data, now)
                       ELSE price_data
              sess == check_sessions(sessions, now, pdata)
              w == monitor_breakouts(1, World, sess, now, pdata, up)
          IN /\ price_data' = pdata
             /\ last_processed_time' = IF CandleDue(now) THEN CandleStart(now)
                                       ELSE last_processed_time
             /\ sessions' = sess
             /\ SetWorld(update_technical_indicators(w, now))

\* one iteration of SignalDetectionService._monitoring_loop
MonitoringLoop(up) ==
  /\ LoopBody(up)
  /\ UNCHANGED <<now, tickVars, controlVars, v2Vars, raceVars, calcVars>>

\* a loop whose task ends when an iteration raises
ends_on_exception(tasks) == tasks - 1

\* the number of live loop tasks after an iteration raised: the except
\* clause inside the while loop logs, sleeps and lets the loop go on
after_exception(tasks) == tasks

\* one iteration of the in-memory loop, counted in result
MonitoringLoopCounted(up) ==
  /\ LoopBody(up)
  /\ result' = [result EXCEPT !.op = "ok", !.n = (@ + 1) % 2]
  /\ UNCHANGED <<now, tickVars, controlVars, v2Vars, raceVars, args>>

\* one iteration of the in-memory loop that raises before it changed
\* anything (the tick store or the signal collection is unavailable)
MonitoringLoopRaises ==
  /\ loop_tasks > 0
  /\ monitoring_active
  /\ loop_tasks' = after_exception(loop_tasks)
  /\ result' = [result EXCEPT !.op = "raised", !.n = (@ + 1) % 2]
  /\ UNCHANGED <<now, tickVars, sessionVars, signalVars, monitoring_active, monitoring_task,
                 start_pc, hist_time, starts, v2Vars, raceVars, args>>

\* a monitoring loop task that finds monitoring_active false ends
MonitoringLoopExit ==
  /\ loop_tasks > 0
  /\ ~monitoring_active
  /\ loop_tasks' = loop_tasks - 1
  /\ UNCHANGED <<now, tickVars, sessionVars, signalVars, monitoring_active,
                 monitoring_task, start_pc, hist_time, starts, v2Vars, raceVars, calcVars>>

\* SignalDetectionService.stop_monitoring
StopMonitoring ==
  /\ monitoring_active' = FALSE
  /\ monitoring_task' = FALSE
  /\ loop_tasks' = IF monitoring_task /\ loop_tasks > 0 THEN loop_tasks - 1 ELSE loop_tasks
  /\ UNCHANGED <<now, tickVars, sessionVars, signalVars, start_pc, hist_time, starts,
                 v2Vars, raceVars, calcVars>>

\* ------------------------------------ database-backed service: session store
\* the _id MongoDB generates for the n-th document inserted without one
ObjectId(n) == <<"ObjectId", n>>

\* str(session_doc["_id"]): the hexadecimal text of an ObjectId, a string
StrOf(oid) == <<"str", oid[2]>>

\* SymbolData()
NoSymbolData == [high |-> 0, low |-> 0, tick_count |-> 0]

\* SessionState(trading_date, session_name, ...).dict()
SessionState(trading_date, s) ==
  [trading_date |-> trading_date, session_name |-> s, status |-> "PENDING",
   started_at |-> 0, completed_at |-> 0,
   symbols_data |-> [sym \in Symbols |-> NoSymbolData],
   breakouts_checked |-> FALSE, signals_generated |-> {}]

\* a document as the collection holds it: the fields and the generated _id
WithId(fields, oid) ==
  [_id |-> oid, trading_date |-> fields.trading_date, session_name |-> fields.session_name,
   status |-> fields.status, started_at |-> fields.started_at,
   completed_at |-> fields.completed_at, symbols_data |-> fields.symbols_data,
   breakouts_checked |-> fields.breakouts_checked,
   signals_generated |-> fields.signals_generated]

\* SessionStateService.initialize_daily_sessions from the i-th session on:
\* update_one(..., {"$setOnInsert": ...}, upsert=True)
RECURSIVE initialize_daily_sessions(_, _, _)
initialize_daily_sessions(i, coll, trading_date) ==
  IF i > Len(SessionOrder) THEN coll
  ELSE LET s == SessionOrder[i]
           present == \E d \in coll : d.trading_date = trading_date /\ d.session_name = s
           coll2 == IF present THEN coll
                    ELSE coll \cup {WithId(SessionState(trading_date, s),
                                           ObjectId(Cardinality(coll) + 1))}
       IN initialize_daily_sessions(i + 1, coll2, trading_date)

\* SessionStateService.get_sessions_by_status
get_sessions_by_status(coll, trading_date, statuses) ==
  {d \in coll : d.trading_date = trading_date /\ d.status \in statuses}

\* SessionStateService.get_sessions_for_breakout_check
get_sessions_for_breakout_check(coll, trading_date) ==
  {d \in coll : /\ d.trading_date = trading_date
                /\ d.status = "COMPLETED"
                /\ d.breakouts_checked = FALSE}

\* SessionStateService.update_session_status: update_one({"_id": session_id},
\* {"$set": ...}); the filter matches a document whose _id equals session_id
update_session_status(coll, session_id, status, at, symbols_data) ==
  {IF d._id = session_id
   THEN [d EXCEPT !.status = status,
                  !.started_at = IF status = "ACTIVE" THEN at ELSE @,
                  !.completed_at = IF status = "COMPLETED" THEN at ELSE @,
                  !.symbols_data = IF status = "COMPLETED" THEN symbols_data ELSE @]
   ELSE d : d \in coll}

\* SessionStateService.mark_breakouts_checked
mark_breakouts_checked(coll, session_id, signal_ids) ==
  {IF d._id = session_id
   THEN [d EXCEPT !.breakouts_checked = TRUE,
                  !.signals_generated = IF signal_ids # {} THEN signal_ids ELSE @]
   ELSE d : d \in coll}

\* SessionStateService.calculate_session_data: levels of each symbol from
\* its own ticks received in [start, end)
calculate_session_data(session_doc) ==
  LET start_dt == session_doc.trading_date * SecondsPerDay
                    + start_minutes(session_doc.session_name) * 60
      end_dt == session_doc.trading_date * SecondsPerDay
                  + end_minutes(session_doc.session_name) * 60
  IN [sym \in Symbols |->
        LET ticks == TicksReceivedIn(sym, start_dt, end_dt)
        IN IF ticks # {}
           THEN [high |-> SetMax(PricesOf(ticks)), low |-> SetMin(PricesOf(ticks)),
                 tick_count |-> Cardinality(ticks)]
           ELSE NoSymbolData]

\* SignalDetectionServiceV2._process_session_realtime
process_session_realtime(coll, session_doc, t) ==
  LET current_minutes == MinuteOfDay(t)
  IN IF /\ session_doc.status = "PENDING"
        /\ current_minutes >= start_minutes(session_doc.session_name)
     THEN update_session_status(coll, StrOf(session_doc._id), "ACTIVE", t,
                                session_doc.symbols_data)
     ELSE IF /\ session_doc.status = "ACTIVE"
             /\ current_minutes > end_minutes(session_doc.session_name)
     THEN update_session_status(coll, StrOf(session_doc._id), "COMPLETED", t,
                                calculate_session_data(session_doc))
     ELSE coll

\* ----------------------------------------- database-backed service: signals
\* find_one({'session_name': ..., 'signal_type': ..., 'status': 'ACTIVE'})
ActiveDuplicate(coll, s, signal_type) ==
  \E d \in coll : d.session_name = s /\ d.signal_type = signal_type /\ d.status = "ACTIVE"

\* signal_data of SignalDetectionServiceV2._generate_breakout_signal
BreakoutSignalDoc(s, signal_type, timestamp, lv, price, t, up) ==
  LET tg == calculate_stop_loss_and_targets(signal_type, lv.high, lv.low, price, up)
  IN [id |-> SignalId(s, signal_type, timestamp), session_name |-> s,
      signal_type |-> signal_type, timestamp |-> timestamp,
      entry_price |-> price, stop_loss |-> tg.stop_loss,
      target_1 |-> tg.target_1, target_2 |-> tg.target_2,
      confidence |-> 80,
      status |-> "ACTIVE", session_high |-> lv.high, session_low |-> lv.low,
      created_at |-> t]

\* SignalDetectionServiceV2._generate_breakout_signal: the signal state after
\* the call and the ids it returned; _save_signal_to_db swallows every error
generate_breakout_signal(w, session_doc, signal_type, t, nifty_price, up) ==
  LET s == session_doc.session_name
      lv == session_doc.symbols_data[NIFTY]
      doc == BreakoutSignalDoc(s, signal_type, t, lv, nifty_price, t, up)
  IN IF ActiveDuplicate(w.signals, s, signal_type) THEN [world |-> w, ids |-> {}]
     ELSE [world |-> [w EXCEPT !.signals = InsertSignal(w.signals, doc),
                               !.broadcasts = w.broadcasts \cup {doc.id}],
           ids |-> {doc.id}]

\* SignalDetectionServiceV2._check_session_breakouts for one COMPLETED
\* document: the session collection and the signal state after the call
check_session_breakouts(coll, w, session_doc, t, up) ==
  LET lv == session_doc.symbols_data[NIFTY]
      nifty_price == get_current_price_v2(NIFTY, t)
      futures_price == get_current_price_v2(FUT, t)
      ty == check_session_breakouts_type(nifty_price, futures_price, lv)
      g == IF ty = NoType THEN [world |-> w, ids |-> {}]
           ELSE generate_breakout_signal(w, session_doc, ty, t, nifty_price, up)
  IN IF lv.high = 0 \/ lv.low = 0
     THEN [coll |-> mark_breakouts_checked(coll, StrOf(session_doc._id), {}), world |-> w]
     ELSE IF nifty_price = 0 \/ futures_price = 0
     THEN [coll |-> coll, world |-> w]
     ELSE [coll |-> mark_breakouts_checked(coll, StrOf(session_doc._id), g.ids),
           world |-> g.world]

\* the first loop of an iteration: _process_session_realtime over the
\* documents the status query returned, in session order
RECURSIVE ProcessSessions(_, _, _, _)
ProcessSessions(i, coll, docs, t) ==
  IF i > Len(SessionOrder) THEN coll
  ELSE LET mine == {d \in docs : d.session_name = SessionOrder[i]}
           coll2 == IF mine = {} THEN coll
                    ELSE process_session_realtime(coll, CHOOSE d \in mine : TRUE, t)
       IN ProcessSessions(i + 1, coll2, docs, t)

\* the second loop of an iteration: _check_session_breakouts over the
\* documents the breakout query returned, in session order
RECURSIVE CheckSessions(_, _, _, _, _)
CheckSessions(i, st, docs, t, up) ==
  IF i > Len(SessionOrder) THEN st
  ELSE LET mine == {d \in docs : d.session_name = SessionOrder[i]}
           st2 == IF mine = {} THEN st
                  ELSE check_session_breakouts(st.coll, st.world, CHOOSE d \in mine : TRUE, t, up)
       IN CheckSessions(i + 1, st2, docs, t, up)

\* ----------------------------------------- database-backed service: handlers
\* SignalDetectionServiceV2.start_monitoring
V2StartMonitoring ==
  /\ starts < MaxStarts
  /\ starts' = starts + 1
  /\ v2_monitoring_active' = TRUE
  /\ session_states' = initialize_daily_sessions(1, session_states, Day(now))
  /\ v2_monitoring_task' = TRUE
  /\ v2_loop_tasks' = v2_loop_tasks + 1
  /\ UNCHANGED <<now, tickVars, sessionVars, signalVars, monitoring_active, monitoring_task,
                 loop_tasks, start_pc, hist_time, v2_current_time, raceVars, calcVars>>

\* the body of one iteration of SignalDetectionServiceV2._monitoring_loop
V2LoopBody(up) ==
  /\ v2_loop_tasks > 0
  /\ v2_monitoring_active
  /\ v2_current_time' = now
  /\ IF ~is_market_hours(now)
     THEN UNCHANGED <<session_states, signalVars>>
     ELSE LET current_date == Day(now)
              sessions_to_process ==
                get_sessions_by_status(session_states, current_date, {"PENDING", "ACTIVE"})
              coll == ProcessSessions(1, session_states, sessions_to_process, now)
              sessions_for_breakouts == get_sessions_for_breakout_check(coll, current_date)
              st == CheckSessions(1, [coll |-> coll, world |-> World],
                                  sessions_for_breakouts, now, up)
          IN /\ session_states' = st.coll
             /\ SetWorld(st.world)

\* one iteration of SignalDetectionServiceV2._monitoring_loop
V2MonitoringLoop(up) ==
  /\ V2LoopBody(up)
  /\ UNCHANGED <<now, tickVars, sessionVars, controlVars, v2_monitoring_active,
                 v2_monitoring_task, v2_loop_tasks, raceVars, calcVars>>

\* one iteration of the database-backed loop, counted in result
V2MonitoringLoopCounted(up) ==
  /\ V2LoopBody(up)
  /\ result' = [result EXCEPT !.v2_op = "ok", !.v2_n = (@ + 1) % 2]
  /\ UNCHANGED <<now, tickVars, sessionVars, controlVars, v2_monitoring_active,
                 v2_monitoring_task, v2_loop_tasks, raceVars, args>>

\* one iteration of the database-backed loop that raises before it changed
\* anything
V2MonitoringLoopRaises ==
  /\ v2_loop_tasks > 0
  /\ v2_monitoring_active
  /\ v2_loop_tasks' = after_exception(v2_loop_tasks)
  /\ result' = [result EXCEPT !.v2_op = "raised", !.v2_n = (@ + 1) % 2]
  /\ UNCHANGED <<now, tickVars, sessionVars, signalVars, controlVars, session_states,
                 v2_monitoring_active, v2_monitoring_task, v2_current_time, raceVars, args>>

\* a V2 loop task that finds monitoring_active false ends
V2MonitoringLoopExit ==
  /\ v2_loop_tasks > 0
  /\ ~v2_monitoring_active
  /\ v2_loop_tasks' = v2_loop_tasks - 1
  /\ UNCHANGED <<now, tickVars, sessionVars, signalVars, controlVars, session_states,
                 v2_monitoring_active, v2_monitoring_task, v2_current_time,
                 raceVars, calcVars>>

\* SignalDetectionServiceV2.stop_monitoring
V2StopMonitoring ==
  /\ v2_monitoring_active' = FALSE
  /\ v2_monitoring_task' = FALSE
  /\ v2_loop_tasks' = IF v2_monitoring_task /\ v2_loop_tasks > 0 THEN v2_loop_tasks - 1
                      ELSE v2_loop_tasks
  /\ UNCHANGED <<now, tickVars, sessionVars, signalVars, controlVars, session_states,
                 v2_current_time, raceVars, calcVars>>

\* ------------------------------------ in-memory evaluator, one await at a time
\* Two callers evaluate a session: an iteration of the monitoring loop
\* (_monitor_breakouts) and the handler debug_manual_breakout_check. A run is
\* suspended at its awaits, where the other may run.
Runs == {"loop", "handler"}

IdleRun == [pc |-> "idle", session_name |-> "", signal_type |-> NoType,
            timestamp |-> 0, nifty_price |-> 0]

\* _check_breakout_conditions up to the find_one of _generate_signal: price
\* lookup, classification and the in-memory duplicate check
EvaluateBegin(r, s) ==
  /\ run[r].pc = "idle"
  /\ start_pc = 0
  /\ sessions[s].is_completed
  /\ IF r = "loop" THEN loop_tasks > 0 /\ monitoring_active /\ is_market_hours(now)
     ELSE now > AtMinutes(now, end_minutes(s))
  /\ LET ip == get_current_price(NIFTY, now, price_data)
         fp == get_current_price(FUT, now, price_data)
         ty == check_breakout_conditions(ip, fp, sessions[s].session_data)
     IN IF ty = NoType \/ MemDuplicate(active_signals, s, ty)
        THEN run' = [run EXCEPT ![r] = [IdleRun EXCEPT !.pc = "done", !.session_name = s,
                                                        !.signal_type = ty]]
        ELSE run' = [run EXCEPT ![r] = [pc |-> "find", session_name |-> s,
                                        signal_type |-> ty, timestamp |-> now,
                                        nifty_price |-> ip]]
  /\ UNCHANGED <<now, tickVars, sessionVars, signalVars, controlVars, v2Vars, calcVars>>

\* the find_one of _generate_signal returns
EvaluateFind(r) ==
  /\ run[r].pc = "find"
  /\ run' = [run EXCEPT ![r].pc =
               IF DbDuplicate(signals, run[r].session_name, run[r].signal_type)
               THEN "done" ELSE "register"]
  /\ UNCHANGED <<now, tickVars, sessionVars, signalVars, controlVars, v2Vars, calcVars>>

\* after the awaits that compute confidence and market data: the signal is
\* put into session_signals and active_signals, then the save is awaited
EvaluateRegister(r) ==
  /\ run[r].pc = "register"
  /\ LET g == MemSignal(run[r].session_name, run[r].signal_type, run[r].timestamp)
     IN /\ active_signals' = PutSignal(active_signals, g)
        /\ session_signals' = PutSessionSignal(session_signals, g)
  /\ run' = [run EXCEPT ![r].pc = "save"]
  /\ UNCHANGED <<now, tickVars, sessionVars, signals, broadcasts, controlVars, v2Vars, calcVars>>

\* _save_signal_to_db: insert_one; a duplicate-key error is swallowed
EvaluateSave(r, up) ==
  /\ run[r].pc = "save"
  /\ signals' = InsertSignal(signals,
                  SignalDoc(run[r].session_name, run[r].signal_type, run[r].timestamp,
                            sessions[run[r].session_name].session_data[NIFTY],
                            run[r].nifty_price, now, price_data, up))
  /\ run' = [run EXCEPT ![r].pc = "broadcast"]
  /\ UNCHANGED <<now, tickVars, sessionVars, active_signals, session_signals, broadcasts,
                 controlVars, v2Vars, calcVars>>

\* _save_signal_to_db when insert_one fails with an error that is not a
\* duplicate-key error: it re-raises, the except clause that ends
\* _generate_signal logs the error and the call returns normally; nothing
\* is persisted or broadcast and the registration in memory stays
EvaluateSaveError(r) ==
  /\ run[r].pc = "save"
  /\ run' = [run EXCEPT ![r].pc = "done"]
  /\ UNCHANGED <<now, tickVars, sessionVars, signalVars, controlVars, v2Vars, calcVars>>

\* _broadcast_signal
EvaluateBroadcast(r) ==
  /\ run[r].pc = "broadcast"
  /\ broadcasts' = broadcasts \cup {SignalId(run[r].session_name, run[r].signal_type,
                                             run[r].timestamp)}
  /\ run' = [run EXCEPT ![r].pc = "done"]
  /\ UNCHANGED <<now, tickVars, sessionVars, active_signals, session_signals, signals,
                 controlVars, v2Vars, calcVars>>

\* ------------------------------------------------------- pure computations
\* prices handed to the classification and to the target computation
\* (0 = None)
CalcPrices == {0, 8900, 9500, 10000, 10500}

\* session levels of one instrument: none recorded, or the max and min of
\* the same non-empty set of prices
CalcLevels ==
  {lv \in [high : {0, 9000, 10000, 10001}, low : {0, 9000, 10000, 10001}] :
     \/ lv.high = 0 /\ lv.low = 0
     \/ lv.low > 0 /\ lv.high >= lv.low}

NoArgs == [signal_type |-> NoType, index_price |-> 0, futures_price |-> 0,
           index_levels |-> NoLevels, futures_levels |-> NoLevels]

ArgSets == [signal_type : SignalTypes, index_price : CalcPrices, futures_price : CalcPrices,
            index_levels : CalcLevels, futures_levels : CalcLevels]

NoResult == [classified |-> FALSE, signal_type |-> NoType,
             classified_v2 |-> FALSE, signal_type_v2 |-> NoType,
             calculated |-> FALSE, targets |-> NoTargets]

\* the in-memory classification applied to args
Classify ==
  /\ ~result.classified
  /\ result' = [result EXCEPT
       !.classified = TRUE,
       !.signal_type = check_breakout_conditions(
                         args.index_price, args.futures_price,
                         [sym \in Symbols |-> IF sym = NIFTY THEN args.index_levels
                                              ELSE args.futures_levels])]
  /\ UNCHANGED <<now, tickVars, sessionVars, signalVars, controlVars, v2Vars, raceVars, args>>

\* the database-backed classification applied to args
ClassifyV2 ==
  /\ ~result.classified_v2
  /\ result' = [result EXCEPT
       !.classified_v2 = TRUE,
       !.signal_type_v2 = check_session_breakouts_type(
                            args.index_price, args.futures_price, args.index_levels)]
  /\ UNCHANGED <<now, tickVars, sessionVars, signalVars, controlVars, v2Vars, raceVars, args>>

\* _calculate_stop_loss_and_targets applied to args, the index price being
\* the entry price
Calculate(up) ==
  /\ ~result.calculated
  /\ result' = [result EXCEPT
       !.calculated = TRUE,
       !.targets = calculate_stop_loss_and_targets(
                     args.signal_type, args.index_levels.high, args.index_levels.low,
                     args.index_price, up)]
  /\ UNCHANGED <<now, tickVars, sessionVars, signalVars, controlVars, v2Vars, raceVars, args>>

\* ----------------------------------------------------------- specifications
\* the services right after construction, the clock at t
InitServices(t) ==
  /\ now = t
  /\ tick_data = {}
  /\ tick_buffer = {}
  /\ last_flush = t
  /\ last_tick_cache = [sym \in Symbols |-> NoCache]
  /\ sessions = [s \in SessionNames |-> reset_for_day(NoData)]
  /\ price_data = [sym \in Symbols |-> <<>>]
  /\ last_processed_time = 0
  /\ active_signals = {}
  /\ session_signals = {}
  /\ signals = {}
  /\ broadcasts = {}
  /\ monitoring_active = FALSE
  /\ monitoring_task = FALSE
  /\ loop_tasks = 0
  /\ start_pc = 0
  /\ hist_time = 0
  /\ starts = 0
  /\ session_states = {}
  /\ v2_monitoring_active = FALSE
  /\ v2_monitoring_task = FALSE
  /\ v2_loop_tasks = 0
  /\ v2_current_time = 0
  /\ run = [r \in Runs |-> IdleRun]

InitAt(t) == InitServices(t) /\ result = NoResult

Init == InitAt(SetMin(Times)) /\ args = NoArgs

AdvanceClock == AdvanceClockIn(Times)

Ingest ==
  /\ now \in TickTimes
  /\ \E sym \in Symbols, price \in Prices, src \in TickSources : StoreTickData(sym, price, src)

Historical == \E up \in BOOLEAN : ProcessHistoricalSessions(up)

Loop == \E up \in BOOLEAN : MonitoringLoop(up)

\* the in-memory service fed by the tick store: start-up processing and
\* the iterations of the monitoring loop
Next ==
  \/ AdvanceClock
  \/ Ingest
  \/ StartMonitoring
  \/ Historical
  \/ Loop

Spec == Init /\ [][Next]_vars

IndexIngest ==
  /\ now \in TickTimes
  /\ \E price \in Prices : StoreTickData(NIFTY, price, "ws")

\* the in-memory service started, stopped and started again, fed with index
\* ticks
NextLifecycle ==
  \/ AdvanceClock
  \/ IndexIngest
  \/ StartMonitoring
  \/ Historical
  \/ Loop
  \/ MonitoringLoopExit
  \/ StopMonitoring

SpecLifecycle == Init /\ [][NextLifecycle]_vars

V2Loop == \E up \in BOOLEAN : V2MonitoringLoop(up)

\* the database-backed service fed by the tick store
NextV2 ==
  \/ AdvanceClock
  \/ Ingest
  \/ V2StartMonitoring
  \/ V2Loop
  \/ V2MonitoringLoopExit
  \/ V2StopMonitoring

SpecV2 == Init /\ [][NextV2]_vars

\* instants of the interleaving scenario
RaceTimes == {54000, 54060, 54120, 54360}

InitRace == InitAt(SetMin(RaceTimes)) /\ args = NoArgs

RaceClock == AdvanceClockIn(RaceTimes)

RaceIngest == \E price \in Prices : StoreTickData(NIFTY, price, "ws")

RaceStart == starts = 0 /\ StartMonitoring

Begin == \E r \in Runs, s \in SessionNames : EvaluateBegin(r, s)

Find == \E r \in Runs : EvaluateFind(r)

Register == \E r \in Runs : EvaluateRegister(r)

Save == \E r \in Runs, up \in BOOLEAN : EvaluateSave(r, up)

SaveError == \E r \in Runs : EvaluateSaveError(r)

Broadcast == \E r \in Runs : EvaluateBroadcast(r)

\* the in-memory service with two evaluator runs interleaving at their awaits
NextRace ==
  \/ RaceClock
  \/ RaceIngest
  \/ RaceStart
  \/ Historical
  \/ Begin
  \/ Find
  \/ Register
  \/ Save
  \/ SaveError
  \/ Broadcast

SpecRace == InitRace /\ [][NextRace]_vars

InitCalc == InitAt(SetMin(Times)) /\ args \in ArgSets

Calc == \E up \in BOOLEAN : Calculate(up)

\* the pure computations applied to every argument of the input sets
NextCalc ==
  \/ Classify
  \/ ClassifyV2
  \/ Calc

SpecCalc == InitCalc /\ [][NextCalc]_vars

\* ------------------------------------------ after the close and the next day
\* instants of the scenario: 09:31 and 09:36 of day 0, 16:00 of day 0 (the
\* market is closed), 09:31 and 09:36 of day 1; both days are weekdays
DayTimes == {34260, 34560, 57600, 120660, 120960}

InitDays == InitAt(SetMin(DayTimes)) /\ args = NoArgs

DayClock == AdvanceClockIn(DayTimes)

DayIngest == \E price \in Prices : StoreTickData(NIFTY, price, "ws")

\* start_monitoring is called on day 0 only: the process is not restarted
FirstDayStart == Day(now) = 0 /\ StartMonitoring

\* start_monitoring runs through at the instant of its call
DayHistorical == now = hist_time /\ Historical

\* the in-memory service started on day 0 and left running overnight
NextDays ==
  \/ DayClock
  \/ DayIngest
  \/ FirstDayStart
  \/ DayHistorical
  \/ Loop

SpecDays == InitDays /\ [][NextDays]_vars

\* -------------------------------------------- stop while a call is in flight
\* the awaits at which the loop's evaluator run can be suspended
InFlight == {"find", "register", "save", "broadcast"}

\* SignalDetectionService.stop_monitoring while the loop task is suspended in
\* an evaluation: monitoring_task.cancel() raises CancelledError at the await
\* the task is suspended at and the rest of the call is not executed; an
\* insert_one already handed to the driver is written (written) or not
StopMonitoringCancels(written, up) ==
  /\ monitoring_task
  /\ loop_tasks > 0
  /\ run["loop"].pc \in InFlight
  /\ monitoring_active' = FALSE
  /\ monitoring_task' = FALSE
  /\ loop_tasks' = loop_tasks - 1
  /\ run' = [run EXCEPT !["loop"].pc = "cancelled"]
  /\ signals' = IF written /\ run["loop"].pc = "save"
                THEN InsertSignal(signals,
                       SignalDoc(run["loop"].session_name, run["loop"].signal_type,
                                 run["loop"].timestamp,
                                 sessions[run["loop"].session_name].session_data[NIFTY],
                                 run["loop"].nifty_price, now, price_data, up))
                ELSE signals
  /\ UNCHANGED <<now, tickVars, sessionVars, active_signals, session_signals, broadcasts,
                 start_pc, hist_time, starts, v2Vars, calcVars>>

StopInFlight == \E written \in BOOLEAN, up \in BOOLEAN : StopMonitoringCancels(written, up)

\* the two evaluator runs, and stop_monitoring called while the loop's run
\* is suspended
NextStop ==
  \/ RaceClock
  \/ RaceIngest
  \/ RaceStart
  \/ Historical
  \/ Begin
  \/ Find
  \/ Register
  \/ Save
  \/ SaveError
  \/ Broadcast
  \/ StopInFlight

SpecStop == InitRace /\ [][NextStop]_vars

\* ------------------------------------------------ loops with failing iterations
\* instants of the scenario: before the open and after the first session
\* window
FaultTimes == {32400, 34560}

NoIterations == [op |-> "none", n |-> 0, v2_op |-> "none", v2_n |-> 0]

InitFaulty ==
  /\ InitServices(SetMin(FaultTimes))
  /\ args = NoArgs
  /\ result = NoIterations

FaultClock == AdvanceClockIn(FaultTimes)

FaultStart == loop_tasks = 0 /\ result.op = "none" /\ StartMonitoring

V2FaultStart == v2_loop_tasks = 0 /\ result.v2_op = "none" /\ V2StartMonitoring

LoopCounted == \E up \in BOOLEAN : MonitoringLoopCounted(up)

V2LoopCounted == \E up \in BOOLEAN : V2MonitoringLoopCounted(up)

LoopStep == LoopCounted \/ MonitoringLoopRaises

V2LoopStep == V2LoopCounted \/ V2MonitoringLoopRaises

\* either service started before its loop ever iterated, its loop iterating with iterations that may
\* raise, and stopped at any time
NextFaulty ==
  \/ FaultClock
  \/ FaultStart
  \/ V2FaultStart
  \/ Historical
  \/ LoopCounted
  \/ MonitoringLoopRaises
  \/ V2LoopCounted
  \/ V2MonitoringLoopRaises
  \/ StopMonitoring
  \/ V2StopMonitoring

\* the event loop resumes a sleeping loop task: a loop iteration that stays
\* possible is eventually executed
SpecFaulty ==
  /\ InitFaulty
  /\ [][NextFaulty]_vars
  /\ WF_vars(LoopStep)
  /\ WF_vars(V2LoopStep)

\* ------------------------------------------------ a restart between two days
\* instants of the scenario: 09:35:30 and 09:36 of day 0, and 14:00:00 of
\* day 1, an instant at which the loop runs _cleanup_old_signals
NightTimes == {34530, 34560, 136800}

InitNight ==
  /\ InitServices(SetMin(NightTimes))
  /\ args = NoArgs
  /\ result = NoIterations

NightClock == AdvanceClockIn(NightTimes)

NightIngest == \E sym \in Symbols, price \in Prices : StoreTickData(sym, price, "ws")

\* the application shuts down and a new process is started: the service
\* object is constructed anew (SignalDetectionService.__init__), the
\* collections of the database stay
Restart ==
  /\ loop_tasks > 0
  /\ start_pc = 0
  /\ starts < MaxStarts
  /\ sessions' = [s \in SessionNames |-> reset_for_day(NoData)]
  /\ price_data' = [sym \in Symbols |-> <<>>]
  /\ last_processed_time' = 0
  /\ active_signals' = {}
  /\ session_signals' = {}
  /\ monitoring_active' = FALSE
  /\ monitoring_task' = FALSE
  /\ loop_tasks' = 0
  /\ hist_time' = 0
  /\ UNCHANGED <<now, tickVars, signals, broadcasts, start_pc, starts, v2Vars, raceVars,
                 calcVars>>

\* the start-up event of the application calls start_monitoring once per
\* process
NightStart == loop_tasks = 0 /\ StartMonitoring

\* a loop task exists and monitoring is active: an iteration is possible
LoopPossible == loop_tasks > 0 /\ monitoring_active

\* start_monitoring has been called and has not reached its loop yet
StartPending == start_pc = 1

NextNight ==
  \/ NightClock
  \/ NightIngest
  \/ NightStart
  \/ Historical
  \/ LoopCounted
  \/ Restart

\* time passes, a process that came up calls start_monitoring, a call of
\* start_monitoring reaches its loop, and the event loop resumes a sleeping
\* loop task; the last two are weak fairness of Historical and LoopCounted
\* written out with their enabling conditions
SpecNight ==
  /\ InitNight
  /\ [][NextNight]_vars
  /\ WF_vars(NightClock)
  /\ WF_vars(NightStart)
  /\ ([]<>~StartPending \/ []<><<Historical>>_vars)
  /\ ([]<>~LoopPossible \/ []<><<LoopCounted>>_vars)

\* ------------------------------------------- a completed session being watched
\* the ticks the store holds at 15:06: index ticks of 15:03 and 15:04 and a
\* futures tick of 15:04, all from the feed src; their stored received_at
\* falls into the window query of "Morning Opening"
WatchWindowTicks(src) ==
  {TickDoc(NIFTY, 10000, 54180, src),
   TickDoc(NIFTY, 10105, 54240, src),
   TickDoc(FUT, 10050, 54240, src)}

\* 15:06 and 15:07
WatchTimes == {54360, 54420}

\* index prices of the ticks that arrive from 15:06 on: inside the range of
\* the window, above its high, below its low
WatchPrices == {10050, 10200, 9900}

\* the tick service has stored the ticks of the window, the last of them
\* at 15:04; the signal service is constructed and not started
InitWatch ==
  /\ now = SetMin(WatchTimes)
  /\ \E src \in TickSources :
       /\ tick_data = WatchWindowTicks(src)
       /\ last_tick_cache = [sym \in Symbols |->
                               [price |-> IF sym = NIFTY THEN 10105 ELSE 10050,
                                timestamp |-> 54240, kind |-> TimestampKind(src)]]
  /\ tick_buffer = {}
  /\ last_flush = 54240
  /\ sessions = [s \in SessionNames |-> reset_for_day(NoData)]
  /\ price_data = [sym \in Symbols |-> <<>>]
  /\ last_processed_time = 0
  /\ active_signals = {}
  /\ session_signals = {}
  /\ signals = {}
  /\ broadcasts = {}
  /\ monitoring_active = FALSE
  /\ monitoring_task = FALSE
  /\ loop_tasks = 0
  /\ start_pc = 0
  /\ hist_time = 0
  /\ starts = 0
  /\ session_states = {}
  /\ v2_monitoring_active = FALSE
  /\ v2_monitoring_task = FALSE
  /\ v2_loop_tasks = 0
  /\ v2_current_time = 0
  /\ run = [r \in Runs |-> IdleRun]
  /\ args = NoArgs
  /\ result = NoIterations

WatchClock == AdvanceClockIn(WatchTimes)

\* an index tick arrives from either feed
WatchIngest ==
  /\ Cardinality(tick_data) + Cardinality(tick_buffer) < Cardinality(WatchWindowTicks("ws")) + MaxTicks
  /\ \E price \in WatchPrices, src \in TickSources : BufferTick(NIFTY, price, src)
  /\ UNCHANGED <<now, sessionVars, signalVars, controlVars, v2Vars, raceVars, calcVars>>

WatchStart == starts = 0 /\ StartMonitoring

\* the in-memory service started at 15:06 and iterating while index ticks
\* arrive
NextWatch ==
  \/ WatchClock
  \/ WatchIngest
  \/ WatchStart
  \/ DayHistorical
  \/ LoopCounted

SpecWatch == InitWatch /\ [][NextWatch]_vars

\* ------------------------------------- concurrent initialize_daily_sessions
\* Two callers (start_monitoring of the database-backed service, the
\* init-database endpoint) run initialize_daily_sessions; each update_one
\* with upsert=True is served in two steps, the match of the filter and,
\* when nothing matched, the insert. The collection has no unique index on
\* (trading_date, session_name), so the server does not serialise the two.
InitDates == {34260, 120660}

\* the next session of the loop over the four sessions, "" after the last
NextSession(s) ==
  LET i == CHOOSE k \in 1..Len(SessionOrder) : SessionOrder[k] = s
  IN IF i = Len(SessionOrder) THEN "" ELSE SessionOrder[i + 1]

\* the run after the upsert for its session has returned
UpsertReturned(rn) ==
  IF NextSession(rn.session_name) = ""
  THEN [rn EXCEPT !.pc = "done"]
  ELSE [rn EXCEPT !.pc = "match", !.session_name = NextSession(rn.session_name)]

\* initialize_daily_sessions(today) is called: today is read, the loop
\* starts with the first session
InitializeCall(r) ==
  /\ run[r].pc \in {"idle", "done"}
  /\ run' = [run EXCEPT ![r] = [IdleRun EXCEPT !.pc = "match",
                                                !.session_name = SessionOrder[1],
                                                !.timestamp = Day(now)]]
  /\ UNCHANGED <<now, tickVars, sessionVars, signalVars, controlVars, v2Vars, calcVars>>

\* the server evaluates the filter {trading_date, session_name}
UpsertMatch(r) ==
  /\ run[r].pc = "match"
  /\ run' = [run EXCEPT ![r] =
               IF \E d \in session_states : /\ d.trading_date = run[r].timestamp
                                            /\ d.session_name = run[r].session_name
               THEN UpsertReturned(run[r])
               ELSE [run[r] EXCEPT !.pc = "insert"]]
  /\ UNCHANGED <<now, tickVars, sessionVars, signalVars, controlVars, v2Vars, calcVars>>

\* nothing matched: the server inserts the $setOnInsert document
UpsertInsert(r) ==
  /\ run[r].pc = "insert"
  /\ session_states' = session_states \cup
                         {WithId(SessionState(run[r].timestamp, run[r].session_name),
                                 ObjectId(Cardinality(session_states) + 1))}
  /\ run' = [run EXCEPT ![r] = UpsertReturned(run[r])]
  /\ UNCHANGED <<now, tickVars, sessionVars, signalVars, controlVars, v2_monitoring_active,
                 v2_monitoring_task, v2_loop_tasks, v2_current_time, calcVars>>

InitClock == AdvanceClockIn(InitDates)

NextInit ==
  \/ InitClock
  \/ \E r \in Runs : InitializeCall(r)
  \/ \E r \in Runs : UpsertMatch(r)
  \/ \E r \in Runs : UpsertInsert(r)

SpecInit == InitAt(SetMin(InitDates)) /\ args = NoArgs /\ [][NextInit]_vars

\* ------------------------------------------- flushes suspended on a write
\* store_tick_data calls running as separate tasks (one is created per
\* websocket message). A call appends to the buffer and, when a flush is
\* due, enters _flush_buffer: it collects all_docs and awaits replace_one
\* for one document after the other; other calls run while it is suspended.
\* args holds, per call, its position and the documents of all_docs not yet
\* written; result collects the ticks accepted into the buffer and the
\* ticks a write was attempted for.
FlushCalls == {1, 2}

FlushTimes == {34200, 34201, 34202}

FlushPrices == {10000, 10060}

IdleCall == [pc |-> "idle", all_docs |-> {}]

InitFlush ==
  /\ InitServices(SetMin(FlushTimes))
  /\ args = [c \in FlushCalls |-> IdleCall]
  /\ result = [accepted |-> {}, attempted |-> {}]

\* store_tick_data up to its first suspension: validation, deduplication,
\* append, and _maybe_flush_buffer up to the first awaited replace_one
FlushStore(c, sym, price) ==
  /\ args[c].pc = "idle"
  /\ Cardinality(result.accepted) < MaxTicks + 2
  /\ valid_tick(sym, price)
  /\ should_store_tick(last_tick_cache[sym], price, now, TimestampKind("ws"))
  /\ LET doc == TickDoc(sym, price, now, "ws")
         buffered == tick_buffer \cup {doc}
         should_flush == \/ Cardinality(buffered) >= buffer_size
                         \/ now - last_flush >= buffer_timeout
     IN /\ last_tick_cache' = [last_tick_cache EXCEPT ![sym] =
               [price |-> price, timestamp |-> now, kind |-> TimestampKind("ws")]]
        /\ tick_buffer' = buffered
        /\ result' = [result EXCEPT !.accepted = @ \cup {doc}]
        /\ args' = [args EXCEPT ![c] = IF should_flush
                                       THEN [pc |-> "flushing", all_docs |-> buffered]
                                       ELSE IdleCall]
  /\ UNCHANGED <<now, tick_data, last_flush, sessionVars, signalVars, controlVars, v2Vars,
                 raceVars>>

\* the awaited replace_one of the next document returns (written says
\* whether it stored the document or raised); after the last document the
\* buffer is cleared and last_flush set
FlushWrite(c, written) ==
  /\ args[c].pc = "flushing"
  /\ LET doc == CHOOSE d \in args[c].all_docs :
                   \A e \in args[c].all_docs : d.timestamp <= e.timestamp
         rest == args[c].all_docs \ {doc}
     IN /\ tick_data' = IF written THEN FlushInto(tick_data, {doc}) ELSE tick_data
        /\ result' = [result EXCEPT !.attempted = @ \cup {doc}]
        /\ IF rest = {}
           THEN /\ tick_buffer' = {}
                /\ last_flush' = now
                /\ args' = [args EXCEPT ![c] = IdleCall]
           ELSE /\ args' = [args EXCEPT ![c].all_docs = rest]
                /\ UNCHANGED <<tick_buffer, last_flush>>
  /\ UNCHANGED <<now, last_tick_cache, sessionVars, signalVars, controlVars, v2Vars, raceVars>>

FlushClock == AdvanceClockIn(FlushTimes)

NextFlush ==
  \/ FlushClock
  \/ \E c \in FlushCalls, sym \in Symbols, price \in FlushPrices : FlushStore(c, sym, price)
  \/ \E c \in FlushCalls, written \in BOOLEAN : FlushWrite(c, written)

SpecFlush == InitFlush /\ [][NextFlush]_vars

\* ----------------------------------------------------- the tick feed alone
\* instants of the feed, one second apart, from 09:30:00
FeedTimes == {34200, 34201, 34202}

\* the fields a feed message can carry: no symbol, no price (0), and prices
\* 30 and 60 paise apart
FeedSymbols == Symbols \cup {""}

FeedPrices == {0, 10000, 10030, 10060}

InitTick ==
  /\ InitServices(SetMin(FeedTimes))
  /\ args = NoArgs
  /\ result = TickResult("none", "", 0, "ws", FALSE)

FeedClock == AdvanceClockIn(FeedTimes)

FeedData == \E sym \in FeedSymbols, price \in FeedPrices, src \in TickSources :
              StoreTickDataCall(sym, price, src)

FeedTick == \E sym \in FeedSymbols, price \in FeedPrices : StoreTickCall(sym, price)

\* TickDataService fed with arbitrary messages through both entry points
NextTick ==
  \/ FeedClock
  \/ FeedData
  \/ FeedTick

SpecTick == InitTick /\ [][NextTick]_vars

\* ------------------------------------------- evaluation of single operations
\* tick documents the store can hold in the afternoon: index and futures
\* ticks received 15:01 .. 15:03 (some in the legacy websocket format,
\* which carries a volume) and index and futures ticks received at 15:06
EvalTicks ==
  {TickDoc(NIFTY, 10000, 54060, "ws"),
   [TickDoc(NIFTY, 10105, 54120, "ws") EXCEPT !.volume = 5],
   [TickDoc(NIFTY, 9950, 54180, "ws") EXCEPT !.volume = 2],
   [TickDoc(FUT, 10050, 54120, "ws") EXCEPT !.volume = 3],
   TickDoc(NIFTY, 10200, 54360, "ws"),
   TickDoc(FUT, 9900, 54360, "ws")}

\* a signal of the morning, generated at 09:40 for "Morning Opening"
EvalOldSignal ==
  SignalDoc("Morning Opening", "BUY_CALL", 34800, NoLevels, 10000, 34800,
            [sym \in Symbols |-> <<>>], TRUE)

\* the signal state left by the morning: nothing, the signal still ACTIVE
\* (persisted and held in memory), or the signal swept as EXPIRED
EvalWorlds ==
  {[active_signals |-> {}, session_signals |-> {}, signals |-> {}, broadcasts |-> {}],
   [active_signals |-> {MemSignal("Morning Opening", "BUY_CALL", 34800)},
    session_signals |-> {MemSignal("Morning Opening", "BUY_CALL", 34800)},
    signals |-> {EvalOldSignal}, broadcasts |-> {EvalOldSignal.id}],
   [active_signals |-> {}, session_signals |-> {},
    signals |-> {[EvalOldSignal EXCEPT !.status = "EXPIRED"]},
    broadcasts |-> {EvalOldSignal.id}]}

\* the state at 15:06 after n calls of start_monitoring since 15:06: every
\* session window has ended, so every session is completed with the levels
\* of its window and every call has appended the candles of the windows
EvalState ==
  /\ now = 54360
  /\ tick_data \in SUBSET EvalTicks
  /\ tick_buffer = {}
  /\ last_flush = now
  /\ last_tick_cache = [sym \in Symbols |-> NoCache]
  /\ starts \in {1, 5}
  /\ sessions = [s \in SessionNames |->
                   [is_active |-> FALSE, is_completed |-> TRUE,
                    session_data |-> RetroData(NoData, AtMinutes(now, start_minutes(s)),
                                               AtMinutes(now, end_minutes(s)))]]
  /\ price_data = [sym \in Symbols |->
                     LET c == get_5min_candle_data(sym, 34200, 34500)
                     IN IF TicksOrProxy(sym, 34200, 34500) = {} THEN <<>>
                        ELSE [i \in 1..starts |-> c]]
  /\ last_processed_time = 0
  /\ \E w \in EvalWorlds : /\ active_signals = w.active_signals
                           /\ session_signals = w.session_signals
                           /\ signals = w.signals
                           /\ broadcasts = w.broadcasts
  /\ monitoring_active = TRUE
  /\ monitoring_task = TRUE
  /\ loop_tasks = 1
  /\ start_pc = 0
  /\ hist_time = 0
  /\ session_states = initialize_daily_sessions(1, {}, Day(now))
  /\ v2_monitoring_active = TRUE
  /\ v2_monitoring_task = TRUE
  /\ v2_loop_tasks = 1
  /\ v2_current_time = 0
  /\ run = [r \in Runs |-> IdleRun]
  /\ args \in [symbol : Symbols, start_time : {34200, 34500}]

InitEval == EvalState /\ result = [op |-> "none", value |-> 0]

\* the document _check_session_breakouts is handed for "Morning Opening"
\* once the session is COMPLETED with the levels of calculate_session_data
EvalSessionDoc ==
  LET d == CHOOSE x \in session_states : x.session_name = "Morning Opening"
  IN [d EXCEPT !.status = "COMPLETED", !.completed_at = now,
               !.symbols_data = calculate_session_data(d)]

\* _get_5min_candle_data(args.symbol, args.start_time, 5 minutes later)
ApplyCandle ==
  /\ result.op = "none"
  /\ result' = [op |-> "candle",
                value |-> get_5min_candle_data(args.symbol, args.start_time,
                                               args.start_time + 300)]
  /\ UNCHANGED <<now, tickVars, sessionVars, signalVars, controlVars, v2Vars, raceVars, args>>

\* the levels both services compute for the window of "Morning Opening":
\* _process_session_retroactively and calculate_session_data
ApplySessionData ==
  /\ result.op = "none"
  /\ result' = [op |-> "levels",
                value |-> [memory |-> RetroData(NoData, 34200, 34500),
                           v2 |-> calculate_session_data(EvalSessionDoc)]]
  /\ UNCHANGED <<now, tickVars, sessionVars, signalVars, controlVars, v2Vars, raceVars, args>>

\* SignalDetectionService._check_breakout_conditions(session s, now)
EvaluateInMemory(s, up) ==
  /\ result.op = "none"
  /\ SetWorld(CheckBreakouts(World, s, sessions[s].session_data, now, now, price_data, up))
  /\ result' = [op |-> "memory", value |-> s]
  /\ UNCHANGED <<now, tickVars, sessionVars, controlVars, v2Vars, raceVars, args>>

\* SignalDetectionServiceV2._check_session_breakouts(EvalSessionDoc, now)
EvaluateV2(up) ==
  /\ result.op = "none"
  /\ LET st == check_session_breakouts(session_states, World, EvalSessionDoc, now, up)
     IN /\ session_states' = st.coll
        /\ SetWorld(st.world)
  /\ result' = [op |-> "v2", value |-> "Morning Opening"]
  /\ UNCHANGED <<now, tickVars, sessionVars, controlVars, v2_monitoring_active,
                 v2_monitoring_task, v2_loop_tasks, v2_current_time, raceVars, args>>

\* one operation applied to a state of the afternoon
NextEval ==
  \/ ApplyCandle
  \/ ApplySessionData
  \/ \E s \in SessionNames, up \in BOOLEAN : EvaluateInMemory(s, up)
  \/ \E up \in BOOLEAN : EvaluateV2(up)

SpecEval == InitEval /\ [][NextEval]_vars

\* --------------------------------------- repeated evaluation of one session
\* The evaluators applied again and again to the completed sessions of the
\* afternoon, prices unchanged. result collects what each evaluation
\* classified: the evaluator, the session, the two prices it resolved, the
\* signal type it proposed, and whether the same evaluation had been made
\* before.
Evaluated(by, s, ip, fp, ty) ==
  LET first == [by |-> by, session_name |-> s, index_price |-> ip, futures_price |-> fp,
                signal_type |-> ty, again |-> FALSE]
  IN IF \E e \in result : /\ e.by = by /\ e.session_name = s
                           /\ e.index_price = ip /\ e.futures_price = fp
     THEN result \cup {[first EXCEPT !.again = TRUE]}
     ELSE result \cup {first}

InitRepeat ==
  /\ EvalState
  /\ starts = 1
  /\ args = [symbol |-> NIFTY, start_time |-> 34200]
  /\ result = {}

\* SignalDetectionService._check_breakout_conditions(session s, now), once more
RepeatInMemory(s, up) ==
  /\ sessions[s].is_completed
  /\ SetWorld(CheckBreakouts(World, s, sessions[s].session_data, now, now, price_data, up))
  /\ LET ip == get_current_price(NIFTY, now, price_data)
         fp == get_current_price(FUT, now, price_data)
     IN result' = Evaluated("memory", s, ip, fp,
                            check_breakout_conditions(ip, fp, sessions[s].session_data))
  /\ UNCHANGED <<now, tickVars, sessionVars, controlVars, v2Vars, raceVars, args>>

\* SignalDetectionServiceV2._check_session_breakouts(EvalSessionDoc, now), once more
RepeatV2(up) ==
  /\ LET st == check_session_breakouts(session_states, World, EvalSessionDoc, now, up)
     IN /\ session_states' = st.coll
        /\ SetWorld(st.world)
  /\ LET ip == get_current_price_v2(NIFTY, now)
         fp == get_current_price_v2(FUT, now)
     IN result' = Evaluated("v2", EvalSessionDoc.session_name, ip, fp,
                            check_session_breakouts_type(ip, fp,
                                                         EvalSessionDoc.symbols_data[NIFTY]))
  /\ UNCHANGED <<now, tickVars, sessionVars, controlVars, v2_monitoring_active,
                 v2_monitoring_task, v2_loop_tasks, v2_current_time, raceVars, args>>

NextRepeat ==
  \/ \E s \in SessionNames, up \in BOOLEAN : RepeatInMemory(s, up)
  \/ \E up \in BOOLEAN : RepeatV2(up)

SpecRepeat == InitRepeat /\ [][NextRepeat]_vars

\* ------------------------------------------ an insert that may raise
\* One evaluation of a completed session of the afternoon during which
\* signals.insert_one either works as the collection allows or raises (the
\* database is unreachable). result records whether the call stored a
\* document and the ids it handed to the broadcast sink.
NoCall == [op |-> "none", inserted |-> FALSE, handed |-> {}]

InitPersist ==
  /\ EvalState
  /\ starts = 1
  /\ args = [symbol |-> NIFTY, start_time |-> 34200]
  /\ result = NoCall

\* SignalDetectionServiceV2._generate_breakout_signal when insert_one may
\* raise: _save_signal_to_db logs the error and returns, the caller goes on
\* to _broadcast_signal and returns the signal id
generate_breakout_signal_saving(w, session_doc, signal_type, t, nifty_price, up, raised) ==
  LET g == generate_breakout_signal(w, session_doc, signal_type, t, nifty_price, up)
  IN IF raised THEN [g EXCEPT !.world.signals = w.signals] ELSE g

\* SignalDetectionService._generate_signal when insert_one may raise an
\* error that is not a duplicate-key error: _save_signal_to_db re-raises,
\* the except clause of _generate_signal logs it; the signal stays in
\* session_signals and active_signals, nothing is broadcast
generate_signal_saving(w, s, data, signal_type, timestamp, nifty_price, t, pdata, up, raised) ==
  IF raised /\ ~DuplicateExists(w, s, signal_type)
  THEN LET g == MemSignal(s, signal_type, timestamp)
       IN [w EXCEPT !.active_signals = PutSignal(@, g),
                    !.session_signals = PutSessionSignal(@, g)]
  ELSE generate_signal(w, s, data, signal_type, timestamp, nifty_price, t, pdata, up)

\* _check_session_breakouts(EvalSessionDoc, now) detecting a breakout
PersistV2(raised, up) ==
  /\ result.op = "none"
  /\ LET ip == get_current_price_v2(NIFTY, now)
         fp == get_current_price_v2(FUT, now)
         ty == check_session_breakouts_type(ip, fp, EvalSessionDoc.symbols_data[NIFTY])
         g == generate_breakout_signal_saving(World, EvalSessionDoc, ty, now, ip, up, raised)
     IN /\ ty # NoType
        /\ session_states' = mark_breakouts_checked(session_states,
                                                    StrOf(EvalSessionDoc._id), g.ids)
        /\ SetWorld(g.world)
        /\ result' = [op |-> "v2", inserted |-> g.world.signals # signals, handed |-> g.ids]
  /\ UNCHANGED <<now, tickVars, sessionVars, controlVars, v2_monitoring_active,
                 v2_monitoring_task, v2_loop_tasks, v2_current_time, raceVars, args>>

\* _check_breakout_conditions(session s, now) detecting a breakout
PersistInMemory(s, raised, up) ==
  /\ result.op = "none"
  /\ LET ip == get_current_price(NIFTY, now, price_data)
         fp == get_current_price(FUT, now, price_data)
         data == sessions[s].session_data
         ty == check_breakout_conditions(ip, fp, data)
         w == generate_signal_saving(World, s, data, ty, now, ip, now, price_data, up, raised)
     IN /\ ty # NoType
        /\ SetWorld(w)
        /\ result' = [op |-> "memory", inserted |-> w.signals # signals,
                      handed |-> w.broadcasts \ broadcasts]
  /\ UNCHANGED <<now, tickVars, sessionVars, controlVars, v2Vars, raceVars, args>>

NextPersist ==
  \/ \E raised \in BOOLEAN, up \in BOOLEAN : PersistV2(raised, up)
  \/ \E s \in SessionNames, raised \in BOOLEAN, up \in BOOLEAN : PersistInMemory(s, raised, up)

SpecPersist == InitPersist /\ [][NextPersist]_vars

\* ------------------------------------------------------------------ claims
\* what the claims read off the state
\* status of an in-memory session as a rank: PENDING 0, ACTIVE 1, COMPLETED 2
StatusRank(sess) == IF sess.is_completed THEN 2 ELSE IF sess.is_active THEN 1 ELSE 0

\* the persisted signals of a (session_name, signal_type) pair
SignalsOf(s, signal_type) ==
  {d \in signals : d.session_name = s /\ d.signal_type = signal_type}

BreaksHigh(price, lv) == price > lv.high

BreaksLow(price, lv) == price < lv.low

\* levels recorded with high above low
ProperLevels(lv) == lv.low > 0 /\ lv.high > lv.low

\* the values x / 2 can take when rounded to a whole number of hundredths
HalfOf(x) == IF x % 2 = 0 THEN {x \div 2} ELSE {x \div 2, (x \div 2) + 1}

\* this step is an iteration of the in-memory loop that processed a new candle
LoopTicked == last_processed_time' # last_processed_time

\* minute t lies inside the session window, boundaries included
InWindow(s, t) == start_minutes(s) <= MinuteOfDay(t) /\ MinuteOfDay(t) <= end_minutes(s)

\* max and min price over the stored ticks of sym with a receive time in
\* the window of session s on the day of t
WindowTicks(s, sym, t) ==
  TicksReceivedIn(sym, AtMinutes(t, start_minutes(s)), AtMinutes(t, end_minutes(s)))

\* C1: after any sequence of loop iterations (and start-up processing) the
\* persisted signal store holds at most one signal with status ACTIVE for
\* each (session_name, signal_type) pair.
C1_AtMostOneActive ==
  \A d1 \in signals, d2 \in signals :
    (/\ d1.status = "ACTIVE" /\ d2.status = "ACTIVE"
     /\ d1.session_name = d2.session_name
     /\ d1.signal_type = d2.signal_type) => d1 = d2

\* C1 witness: an ACTIVE signal is persisted, the loop has iterated at the
\* current instant, later than the signal's detection, and the evaluator
\* proposes the same signal type for the same session again
C1_Witness ==
  \E d \in signals :
    /\ d.status = "ACTIVE"
    /\ sessions[d.session_name].is_completed
    /\ d.timestamp < last_processed_time
    /\ last_processed_time = CandleStart(now)
    /\ check_breakout_conditions(get_current_price(NIFTY, now, price_data),
                                 get_current_price(FUT, now, price_data),
                                 sessions[d.session_name].session_data) = d.signal_type

\* C2: when two evaluator runs for the same completed session interleave and
\* both detect the same breakout, exactly one signal of that (session_name,
\* signal_type) is persisted and exactly one is broadcast.
C2_ExactlyOnePersisted ==
  \A s \in SessionNames, ty \in SignalTypes :
    (\A r \in Runs : /\ run[r].pc = "done"
                     /\ run[r].session_name = s
                     /\ run[r].signal_type = ty)
    => /\ Cardinality(SignalsOf(s, ty)) = 1
       /\ Cardinality({b \in broadcasts : b[1] = s /\ b[2] = ty}) = 1

\* C3: within one trading day no step moves a session's status backward
\* (COMPLETED never back to ACTIVE or PENDING, ACTIVE never back to PENDING).
C3_StatusNeverRegresses ==
  [][\A s \in SessionNames :
       Day(now') = Day(now) => StatusRank(sessions'[s]) >= StatusRank(sessions[s])]_vars

\* C4: for prices and session levels with high > low the in-memory
\* classification follows the decision table: both break high -> BUY_CALL;
\* both break low -> BUY_PUT; exactly one breaks high -> BUY_PUT; exactly one
\* breaks low and neither breaks high -> BUY_CALL; nothing broken -> no type.
C4_DecisionTable ==
  LET ip == args.index_price
      fp == args.futures_price
      il == args.index_levels
      fl == args.futures_levels
      ih == BreaksHigh(ip, il)
      fh == BreaksHigh(fp, fl)
      ilow == BreaksLow(ip, il)
      flow == BreaksLow(fp, fl)
  IN (/\ result.classified
      /\ ip > 0 /\ fp > 0
      /\ ProperLevels(il) /\ ProperLevels(fl))
     => /\ (ih /\ fh) => result.signal_type = "BUY_CALL"
        /\ (ilow /\ flow) => result.signal_type = "BUY_PUT"
        /\ (ih # fh) => result.signal_type = "BUY_PUT"
        /\ ((ilow # flow) /\ ~ih /\ ~fh) => result.signal_type = "BUY_CALL"
        /\ (~ih /\ ~fh /\ ~ilow /\ ~flow) => result.signal_type = NoType

\* C4 witness: the index alone breaks its session low, nothing breaks a
\* high, and the classification has answered BUY_CALL
C4_Witness ==
  /\ result.classified
  /\ args.index_price > 0 /\ args.futures_price > 0
  /\ ProperLevels(args.index_levels) /\ ProperLevels(args.futures_levels)
  /\ BreaksLow(args.index_price, args.index_levels)
  /\ ~BreaksLow(args.futures_price, args.futures_levels)
  /\ ~BreaksHigh(args.futures_price, args.futures_levels)
  /\ result.signal_type = "BUY_CALL"

\* C5: whenever exactly one of index and futures breaks its session high,
\* the signal type of every evaluator path (in-memory and database-backed)
\* is BUY_PUT, never BUY_CALL.
C5_DivergentHighIsPut ==
  (/\ result.classified /\ result.classified_v2
   /\ args.index_price > 0 /\ args.futures_price > 0
   /\ ProperLevels(args.index_levels) /\ ProperLevels(args.futures_levels)
   /\ BreaksHigh(args.index_price, args.index_levels)
        # BreaksHigh(args.futures_price, args.futures_levels))
  => /\ result.signal_type = "BUY_PUT"
     /\ result.signal_type_v2 = "BUY_PUT"

\* C6: every generated signal has, with R = session_high - session_low,
\* stop_loss = session_low, target_1 = entry + R/2, target_2 = entry + R for
\* BUY_CALL and stop_loss = session_high, target_1 = entry - R/2,
\* target_2 = entry - R for BUY_PUT, to the hundredth.
C6_TargetsFromSessionRange ==
  \A d \in signals :
    LET R == d.session_high - d.session_low
    IN IF d.signal_type = "BUY_CALL"
       THEN /\ d.stop_loss = d.session_low
            /\ (d.target_1 - d.entry_price) \in HalfOf(R)
            /\ d.target_2 = d.entry_price + R
       ELSE /\ d.stop_loss = d.session_high
            /\ (d.entry_price - d.target_1) \in HalfOf(R)
            /\ d.target_2 = d.entry_price - R

\* C7: for every result of the stop-loss/target computation, target_2 -
\* target_1 equals target_1 - entry within one hundredth for BUY_CALL, and
\* entry - target_1 equals target_1 - target_2 within one hundredth for
\* BUY_PUT.
C7_EqualIncrements ==
  (result.calculated /\ result.targets # NoTargets)
  => LET e == args.index_price
         t1 == result.targets.target_1
         t2 == result.targets.target_2
     IN IF args.signal_type = "BUY_CALL"
        THEN Abs((t2 - t1) - (t1 - e)) <= 1
        ELSE Abs((e - t1) - (t1 - t2)) <= 1

\* C7 witness: a BUY_CALL computed over an odd range, where the two
\* increments differ by the rounding of the half range
C7_Witness ==
  /\ result.calculated
  /\ result.targets # NoTargets
  /\ args.signal_type = "BUY_CALL"
  /\ (args.index_levels.high - args.index_levels.low) % 2 = 1
  /\ result.targets.target_2 - result.targets.target_1
       # result.targets.target_1 - args.index_price

\* C8: when the in-memory loop runs _check_sessions at a minute inside a
\* session's window on a session that is neither active nor completed, the
\* session is ACTIVE (is_active, not is_completed) when the iteration ends.
C8_ActiveInsideWindow ==
  [][\A s \in SessionNames :
       (/\ LoopTicked
        /\ InWindow(s, now)
        /\ ~sessions[s].is_active
        /\ ~sessions[s].is_completed)
       => (sessions'[s].is_active /\ ~sessions'[s].is_completed)]_vars

\* C9: once the database-backed loop has ticked during market hours at or
\* after a session's start boundary, the session's persisted status is no
\* longer PENDING (it became ACTIVE, later COMPLETED).
C9_LeavesPending ==
  \A d \in session_states :
    (/\ v2_current_time # 0
     /\ d.trading_date = Day(v2_current_time)
     /\ is_market_hours(v2_current_time)
     /\ MinuteOfDay(v2_current_time) >= start_minutes(d.session_name))
    => d.status # "PENDING"

\* C10: when the loop, having ticked inside a session's window, ticks for
\* the first time after the window's end, the session is COMPLETED and its
\* high and low for every instrument are the maximum and minimum price over
\* all stored ticks of that instrument received in [start, end).
C10_FinalLevelsFromAllTicks ==
  [][\A s \in SessionNames :
       (/\ LoopTicked
        /\ last_processed_time # 0
        /\ Day(last_processed_time) = Day(now)
        /\ start_minutes(s) <= MinuteOfDay(last_processed_time)
        /\ MinuteOfDay(last_processed_time) < end_minutes(s)
        /\ MinuteOfDay(now) > end_minutes(s)
        /\ ~sessions[s].is_completed)
       => /\ sessions'[s].is_completed
          /\ \A sym \in Symbols :
               WindowTicks(s, sym, now) # {}
               => /\ sessions'[s].session_data[sym].high = SetMax(PricesOf(WindowTicks(s, sym, now)))
                  /\ sessions'[s].session_data[sym].low = SetMin(PricesOf(WindowTicks(s, sym, now)))]_vars

\* C11: within a trading day no step changes the reference high/low of a
\* session that is COMPLETED, and no step writes the high/low of a session
\* that is not ACTIVE.
C11_LevelsFrozen ==
  [][\A s \in SessionNames :
       (/\ Day(now') = Day(now)
        /\ (sessions[s].is_completed \/ ~sessions[s].is_active))
       => sessions'[s].session_data = sessions[s].session_data]_vars

\* the window of "Morning Opening" on the day of now, as the level queries
\* state it
EvalWindowTicks(sym) ==
  TicksReceivedIn(sym, AtMinutes(now, start_minutes("Morning Opening")),
                  AtMinutes(now, end_minutes("Morning Opening")))

\* C12: when the futures has no tick in a session's window and the index
\* has, every computation of the completed session's levels gives the
\* futures the index's high and low.
C12_FuturesProxyLevels ==
  (/\ result.op = "levels"
   /\ EvalWindowTicks(FUT) = {}
   /\ EvalWindowTicks(NIFTY) # {})
  => /\ result.value.memory[FUT].high = result.value.memory[NIFTY].high
     /\ result.value.memory[FUT].low = result.value.memory[NIFTY].low
     /\ result.value.v2[FUT].high = result.value.v2[NIFTY].high
     /\ result.value.v2[FUT].low = result.value.v2[NIFTY].low

\* the ticks a candle of args.symbol over the window starting at
\* args.start_time is to be built from: the symbol's own ticks received in
\* the window, or the index's when a futures symbol has none
CandleOwnTicks ==
  {d \in tick_data : /\ d.symbol = args.symbol
                     /\ args.start_time <= d.received_at
                     /\ d.received_at < args.start_time + 300}

CandleIndexTicks ==
  {d \in tick_data : /\ d.symbol = nifty_index
                     /\ args.start_time <= d.received_at
                     /\ d.received_at < args.start_time + 300}

CandleTicks ==
  IF CandleOwnTicks # {} THEN CandleOwnTicks
  ELSE IF args.symbol \in nifty_futures THEN CandleIndexTicks
  ELSE {}

RecentlyReceived(sym, lookback) ==
  {d \in tick_data : /\ d.symbol = sym
                     /\ now - lookback <= d.received_at + TzShift
                     /\ d.received_at + TzShift <= now}

LastReceivedPrice(sym, lookback) == LastReceived(RecentlyReceived(sym, lookback))

\* the price the priority order gives sym at instant now; 0 stands for None
PriorityPrice(sym, lookback, pdata) ==
  IF RecentlyReceived(sym, lookback) # {} THEN LastReceivedPrice(sym, lookback)
  ELSE IF sym \in nifty_futures /\ RecentlyReceived(nifty_index, lookback) # {}
       THEN LastReceivedPrice(nifty_index, lookback)
  ELSE IF pdata[sym] # <<>> THEN pdata[sym][Len(pdata[sym])].close
  ELSE IF sym \in nifty_futures /\ pdata[nifty_index] # <<>>
       THEN pdata[nifty_index][Len(pdata[nifty_index])].close
  ELSE 0

\* C14: price resolution returns the first available of: the symbol's most
\* recent tick of the recent window; for the futures, the index's most
\* recent tick of that window; the close of the symbol's latest candle; for
\* the futures, the close of the index's latest candle; and nothing only
\* when none of them is available (the database-backed service keeps no
\* candles).
C14_PricePriority ==
  \A sym \in Symbols :
    /\ get_current_price(sym, now, price_data) = PriorityPrice(sym, PriceLookback, price_data)
    /\ get_current_price_v2(sym, now)
         = PriorityPrice(sym, PriceLookbackV2, [x \in Symbols |-> <<>>])

\* price resolution of the in-memory evaluator / of the database-backed
\* evaluator returns None for the index or for the futures
PriceMissing ==
  \/ get_current_price(NIFTY, now, price_data) = 0
  \/ get_current_price(FUT, now, price_data) = 0

PriceMissingV2 ==
  \/ get_current_price_v2(NIFTY, now) = 0
  \/ get_current_price_v2(FUT, now) = 0

\* the database-backed evaluator reaches price resolution: the session
\* document carries index levels
HasIndexLevels ==
  /\ EvalSessionDoc.symbols_data[NIFTY].high # 0
  /\ EvalSessionDoc.symbols_data[NIFTY].low # 0

\* C15: when price resolution returns None for the index or the futures,
\* an evaluation of a completed session generates, persists and broadcasts
\* no signal and leaves the session as it was, in memory and in the session
\* collection (in particular not marked breakouts_checked).
C15_NoPriceNoSignal ==
  [][(/\ result.op = "none"
      /\ \/ result'.op = "memory" /\ PriceMissing
         \/ result'.op = "v2" /\ HasIndexLevels /\ PriceMissingV2)
     => /\ UNCHANGED signalVars
        /\ sessions' = sessions
        /\ session_states' = session_states]_vars

\* the in-memory evaluator has run on a session without levels while the
\* futures had a price and the index none
C15_Witness ==
  /\ result.op = "memory"
  /\ sessions[result.value].session_data = NoData
  /\ get_current_price(NIFTY, now, price_data) = 0
  /\ get_current_price(FUT, now, price_data) # 0

\* a reference high or low of the index or of the futures is missing
MissingLevels(data) ==
  \E sym \in Symbols : data[sym].high = 0 \/ data[sym].low = 0

\* C16: when a completed session lacks a reference high or low for the
\* index or for the futures, an evaluation of that session generates,
\* persists and broadcasts no signal.
C16_NoLevelsNoSignal ==
  [][(/\ result.op = "none"
      /\ \/ /\ result'.op = "memory"
            /\ sessions[result'.value].is_completed
            /\ MissingLevels(sessions[result'.value].session_data)
         \/ /\ result'.op = "v2"
            /\ MissingLevels(EvalSessionDoc.symbols_data))
     => UNCHANGED signalVars]_vars

\* a record for (session s, signal type ty) exists, in memory or persisted,
\* whatever its status
RecordExists(s, ty) ==
  \/ \E g \in active_signals \cup session_signals :
       g.session_name = s /\ g.signal_type = ty
  \/ \E d \in signals : d.session_name = s /\ d.signal_type = ty

\* C17: an evaluation adds no signal for a (session, signal type) that
\* already has a record in memory or in the signal collection, whatever the
\* record's status; it leaves the signal state as it was.
C17_ExistingRecordBlocks ==
  [][(result.op = "none" /\ result'.op \in {"memory", "v2"})
     => \A d \in signals' \ signals : ~RecordExists(d.session_name, d.signal_type)]_vars

\* C18: every signal held in the in-memory active set or in the per-session
\* tracking has a record in the signal collection.
C18_RegisteredIsPersisted ==
  \A g \in active_signals \cup session_signals : \E d \in signals : d.id = g.id

\* C19: a save that meets a duplicate-key error is swallowed and signal
\* generation goes on to the broadcast; a save that fails for any other
\* reason ends the evaluator run with the error raised to the monitoring
\* loop, not with a normal return.
C19_SaveFailurePropagates ==
  [][\A r \in Runs :
       (run[r].pc = "save" /\ run'[r].pc # "save")
       => \/ run'[r].pc = "broadcast"
          \/ run'[r].pc = "raised" /\ signals' = signals]_vars

\* the confidence the scoring rule gives a signal of type ty generated now:
\* base 50, 20 for both instruments on the favourable side of their VWAP,
\* 15 for volume confirmation, 10 in the peak hours, kept within [30, 95]
ScoredConfidence(ty) ==
  LET favourable == \A sym \in Symbols :
                      vwap_side(sym, get_current_price(sym, now, price_data),
                                ty = "BUY_CALL", now, price_data)
      peak == 10 * 3600 <= SecOfDay(now) /\ SecOfDay(now) < 15 * 3600
      raw == 50 + (IF favourable THEN 20 ELSE 0)
                + (IF check_volume_confirmation THEN 15 ELSE 0)
                + (IF peak THEN 10 ELSE 0)
  IN IF raw < 30 THEN 30 ELSE IF raw > 95 THEN 95 ELSE raw

\* C20: every signal an evaluation generates carries a confidence in
\* [30, 95] equal to the scoring rule's value.
C20_ConfidenceScore ==
  [][(result.op = "none" /\ result'.op \in {"memory", "v2"})
     => \A d \in signals' \ signals :
          /\ 30 <= d.confidence /\ d.confidence <= 95
          /\ d.confidence = ScoredConfidence(d.signal_type)]_vars

\* the tick documents of sym written or waiting in the buffer
AcceptedTicks(store, buffer, sym) == {d \in store \cup buffer : d.symbol = sym}

\* d and e are consecutive accepted ticks of one symbol
ConsecutiveTicks(S, d, e) ==
  /\ d.received_at < e.received_at
  /\ ~\E f \in S : d.received_at < f.received_at /\ f.received_at < e.received_at

C22_RejectedOnlyIfAllThree ==
  [][now' = now =>
       LET r == result'
       IN (/\ r.symbol \in Symbols
           /\ r.price > 0
           /\ r.op = "store_tick" => tick_is_market_hours(now)
           /\ last_tick_cache[r.symbol].kind # "none"
           /\ ~(/\ Abs(r.price - last_tick_cache[r.symbol].price) < min_price_change
                /\ now - last_tick_cache[r.symbol].timestamp < 1
                /\ r.price = last_tick_cache[r.symbol].price))
          => /\ r.value
             /\ TickDoc(r.symbol, r.price, now, r.src) \in tick_data' \cup tick_buffer']_vars

\* C23: a tick without a symbol or with a non-positive price is rejected by
\* store_tick and by store_tick_data: the call returns False and leaves
\* the write buffer, the store and the deduplication cache as they were.
C23_InvalidTickRejected ==
  [][(/\ now' = now
      /\ result'.symbol = "" \/ result'.price <= 0)
     => (~result'.value /\ UNCHANGED tickVars)]_vars

\* store_tick_data has returned False for a tick without a price although
\* the symbol had no accepted tick yet, so that deduplication would have
\* let it through
C23_Witness ==
  /\ result.op = "store_tick_data"
  /\ result.symbol \in Symbols
  /\ result.price = 0
  /\ ~result.value
  /\ last_tick_cache[result.symbol].kind = "none"

\* C24: when an iteration of a monitoring loop has raised, the loop task is
\* still alive and, as long as monitoring stays active, a later iteration
\* is executed; for the in-memory loop and for the database-backed loop.
C24_LoopSurvivesException ==
  \A k \in 0..1 :
    /\ (result.op = "raised" /\ result.n = k /\ monitoring_active)
         ~> (result.n # k \/ ~monitoring_active)
    /\ (result.v2_op = "raised" /\ result.v2_n = k /\ v2_monitoring_active)
         ~> (result.v2_n # k \/ ~v2_monitoring_active)

\* an iteration of each loop has raised, as the second one or later, and
\* both tasks are alive with monitoring active
C24_Witness ==
  /\ monitoring_active
  /\ loop_tasks = 1
  /\ result.op = "raised"
  /\ result.n = 0
  /\ v2_monitoring_active
  /\ v2_loop_tasks = 1
  /\ result.v2_op = "raised"
  /\ result.v2_n = 0

\* C27: at most one monitoring loop task runs per service, whatever the
\* sequence of start_monitoring and stop_monitoring calls.
C27_AtMostOneLoop ==
  /\ loop_tasks <= 1
  /\ v2_loop_tasks <= 1

\* C25: outside market hours no step advances a session's status and no
\* step generates a signal, the start-up processing of start_monitoring
\* included.
C25_NothingOutsideMarketHours ==
  [][(now' = now /\ ~is_market_hours(now))
     => /\ \A s \in SessionNames : StatusRank(sessions'[s]) <= StatusRank(sessions[s])
        /\ signals' = signals]_vars

\* C30: the first market-hours iteration of a new trading day, the loop
\* having run on without a restart, leaves no session COMPLETED and no
\* levels of the previous day in any session.
C30_NewDayStartsClean ==
  [][(LoopTicked /\ Day(last_processed_time') > Day(last_processed_time))
     => \A s \in SessionNames :
          /\ ~sessions'[s].is_completed
          /\ ~sessions'[s].is_active => sessions'[s].session_data = NoData]_vars

\* a record of the signal sink that is ACTIVE more than four hours after
\* its creation
Overdue(d) == d.status = "ACTIVE" /\ d.timestamp + StaleSeconds < now

\* C26: every ACTIVE signal is marked EXPIRED in the sink once the wall
\* clock has passed its creation by more than four hours: from some point
\* on the sink holds no overdue ACTIVE record and get_active_signals() of
\* the in-memory service returns no overdue signal.
C26_StaleSignalsExpire ==
  <>[](/\ \A d \in signals : ~Overdue(d)
       /\ \A g \in active_signals : ~(g.timestamp + StaleSeconds < now))

\* C28: a stop_monitoring call leaves an insert or a broadcast that is in
\* flight able to finish: the run that awaits it is still at that await
\* after the call.
C28_StopLetsCallFinish ==
  [][(monitoring_active /\ ~monitoring_active')
     => \A r \in Runs : run[r].pc \in {"save", "broadcast"} => run'[r] = run[r]]_vars

\* the index price of the latest tick received in the look-back window lies
\* beyond the levels lv
MovedBeyond(lv) ==
  /\ RecentlyReceived(NIFTY, PriceLookback) # {}
  /\ \/ LastReceivedPrice(NIFTY, PriceLookback) > lv.high
     \/ LastReceivedPrice(NIFTY, PriceLookback) < lv.low

\* C29: an iteration of the loop that finds a session COMPLETED with index
\* levels, without a signal so far, and the index price of the latest tick
\* beyond the session high or low, generates a signal for that session.
C29_BreakoutAfterInsideRange ==
  [][(result'.n # result.n /\ is_market_hours(now))
     => \A s \in SessionNames :
          (/\ sessions[s].is_completed
           /\ sessions[s].session_data[NIFTY].high # 0
           /\ sessions[s].session_data[NIFTY].low # 0
           /\ ~\E d \in signals : d.session_name = s
           /\ MovedBeyond(sessions[s].session_data[NIFTY]))
          => \E d \in signals' : d.session_name = s]_vars

\* the session records of a trading date and session name
SessionRecords(trading_date, s) ==
  {d \in session_states : d.trading_date = trading_date /\ d.session_name = s}

\* C31: whatever the number and the interleaving of initialize_daily_sessions
\* calls, the store never holds two records for one session name and trading
\* date, and holds one for every session of the date once a call has
\* returned.
C31_OneRecordPerSession ==
  /\ \A d \in session_states : Cardinality(SessionRecords(d.trading_date, d.session_name)) = 1
  /\ \A r \in Runs : run[r].pc = "done"
       => \A s \in SessionNames : SessionRecords(run[r].timestamp, s) # {}

\* the stored ticks of a symbol whose stored 'timestamp' lies between the
\* bounds as they were passed
StoredBetween(sym, start_time, end_time) ==
  {d \in tick_data : /\ d.symbol = sym
                     /\ start_time <= d.timestamp
                     /\ d.timestamp <= end_time}

\* C32: for naive home-time bounds the range query returns exactly the
\* stored ticks of the symbol whose stored timestamp lies between the bounds
\* as passed (no timezone shift), for the window price resolution asks for
\* and for the five-minute window ending now.
C32_RangeQueryUnshifted ==
  \A sym \in Symbols : \A len \in {PriceLookback, PriceLookbackV2} :
    get_ticks_for_timerange(sym, now - len, now) = StoredBetween(sym, now - len, now)

\* the sessions that are ACTIVE in the in-memory registry and in the session
\* collection for the day of t
ActiveInMemory == {s \in SessionNames : sessions[s].is_active /\ ~sessions[s].is_completed}

ActiveStored(trading_date) ==
  {d \in session_states : d.trading_date = trading_date /\ d.status = "ACTIVE"}

\* no session is ACTIVE in either registry
NoSessionActive == ActiveInMemory = {} /\ \A d \in session_states : d.status # "ACTIVE"

C35_StopAndTargetsOrdered ==
  \A d \in signals :
    (d.session_low # 0 /\ d.session_high > d.session_low)
    => IF d.signal_type = "BUY_CALL"
       THEN /\ d.stop_loss < d.entry_price
            /\ d.entry_price < d.target_1
            /\ d.target_1 < d.target_2
       ELSE /\ d.stop_loss > d.entry_price
            /\ d.entry_price > d.target_1
            /\ d.target_1 > d.target_2

\* one instrument is above its session high while the other is below its
\* session low
OppositeBreaks ==
  \/ /\ BreaksHigh(args.index_price, args.index_levels)
     /\ BreaksLow(args.futures_price, args.futures_levels)
  \/ /\ BreaksHigh(args.futures_price, args.futures_levels)
     /\ BreaksLow(args.index_price, args.index_levels)

\* C36: for present prices the in-memory classification always answers, by
\* a fixed priority over the levels it compares with (the session's, or the
\* dummy levels): both break high -> BUY_CALL, else both break low ->
\* BUY_PUT, else a high break of either -> BUY_PUT, else a low break of
\* either -> BUY_CALL, else no type; so with session levels high > low, one
\* instrument above its high and the other below its low give BUY_PUT.
C36_FixedPriority ==
  LET ip == args.index_price
      fp == args.futures_price
      il == EffectiveLevels(args.index_levels, ip)
      fl == EffectiveLevels(args.futures_levels, fp)
  IN (result.classified /\ ip > 0 /\ fp > 0)
     => /\ result.signal_type =
             IF ip > il.high /\ fp > fl.high THEN "BUY_CALL"
             ELSE IF ip < il.low /\ fp < fl.low THEN "BUY_PUT"
             ELSE IF ip > il.high \/ fp > fl.high THEN "BUY_PUT"
             ELSE IF ip < il.low \/ fp < fl.low THEN "BUY_CALL"
             ELSE NoType
        /\ (ProperLevels(args.index_levels) /\ ProperLevels(args.futures_levels)
            /\ OppositeBreaks)
           => result.signal_type = "BUY_PUT"

\* the index above its session high, the futures below its session low, and
\* the classification has answered BUY_PUT
C36_Witness ==
  /\ result.classified
  /\ args.index_price > 0 /\ args.futures_price > 0
  /\ ProperLevels(args.index_levels) /\ ProperLevels(args.futures_levels)
  /\ BreaksHigh(args.index_price, args.index_levels)
  /\ BreaksLow(args.futures_price, args.futures_levels)
  /\ result.signal_type = "BUY_PUT"

\* C37: every tick accepted into the write buffer is, until a store write
\* has been attempted for it, still in the buffer or among the documents a
\* suspended flush has collected and will write, whatever other calls
\* append or flush in the meantime.
C37_NoTickDroppedUnwritten ==
  \A d \in result.accepted :
    \/ d \in tick_buffer
    \/ d \in result.attempted
    \/ \E c \in FlushCalls : d \in args[c].all_docs

\* a signal of session s and type ty of the trading day of instant t, in
\* the signal collection coll
SignalOfDay(coll, s, ty, t) ==
  \E d \in coll : d.session_name = s /\ d.signal_type = ty /\ Day(d.timestamp) = Day(t)

\* C38: when start_monitoring completes a session today (the index price
\* being resolved from a recent tick) and the evaluation of that session
\* detects a breakout of type ty, a signal of that session and type is
\* generated for today, also when signals of that session and type were
\* generated on an earlier trading day.
C38_DedupScopedToDay ==
  [][(/\ start_pc = 1 /\ start_pc' = 0
      /\ Day(hist_time) = Day(now)
      /\ get_ticks_for_timerange(NIFTY, now - PriceLookback, now) # {})
     => \A s \in SessionNames :
          LET ty == check_breakout_conditions(get_current_price(NIFTY, now, price_data'),
                                              get_current_price(FUT, now, price_data'),
                                              sessions'[s].session_data)
          IN (/\ sessions'[s].is_completed
              /\ ty # NoType
              /\ \E d \in signals : /\ d.session_name = s /\ d.signal_type = ty
              /\ \A d \in signals : (d.session_name = s /\ d.signal_type = ty)
                                      => Day(d.created_at) < Day(now))
             => SignalOfDay(signals', s, ty, now)]_vars

\* C39: an evaluation hands a signal to the broadcast sink (and returns its
\* id) only if its insert into the signal collection succeeded.
C39_BroadcastOnlyIfPersisted ==
  result.handed # {} => result.inserted
============================================================================
